---- MODULE Spec2Model ----
(***************************************************************************)
(* Fund Load Adjudication core: FundProcessor.process_transaction driving  *)
(* RuleEngine (DailyLimitRule, DailyCountRule, WeeklyLimitRule,            *)
(* PrimeIdRule, AnomalyRule) of fund_load_adjudicator/core.                *)
(*                                                                         *)
(* Spec         calls of process_transaction in timestamp order            *)
(* SpecAmount   AmountParser.parse and MondayMultiplier.apply on the       *)
(*              amount string of one transaction                           *)
(* SpecPrime    PrimeNumberChecker.is_prime on one string                  *)
(* SpecFile     process_file: sort the transactions read, process each     *)
(* SpecThreads  two threads calling process_transaction of one processor   *)
(* SpecPrune    the front-pruning loop of WeeklyLimitRule.evaluate on one   *)
(*              log and one date                                           *)
(* SpecAnomaly  AnomalyRule.evaluate and record_transaction of one rule    *)
(* SpecFeed     calls of process_transaction in timestamp order or in any   *)
(*              order, on a small set of transactions                      *)
(* SpecCustomers calls of process_transaction for two customers            *)
(*                                                                         *)
(* Amounts are Decimals with two fractional digits.  The rules hold them   *)
(* as integer cents: every sum formed in Spec, SpecFile and SpecThreads    *)
(* stays far below the ten significant digits of the Decimal context       *)
(* (validators.py:13), so the context never rounds there.  SpecAmount      *)
(* holds an amount as whole units and hundredths and applies the context.  *)
(* Calendar dates are day numbers counted from 2023-01-01 (a Sunday); the  *)
(* YYYY-MM-DD strings the rules use as keys are in bijection with them.    *)
(* The processor runs without a database session (db_session = None), as   *)
(* in the command line tool and the tests.                                 *)
(***************************************************************************)
EXTENDS Integers, Sequences, FiniteSets, TLC

(* ---- Configuration.default(), models.py:104-115, amounts in cents ---- *)
daily_limit == 500000
weekly_limit == 2000000
daily_load_count == 3
prime_id_daily_limit == 999900
prime_id_daily_count == 1
monday_multiplier == 2
min_customer_id_length == 3
min_transaction_id_length == 3
(* AnomalyRule.evaluate, rules.py:220 *)
AnomalyThreshold == 10
(* DateUtils.get_rolling_week_dates, validators.py:128 *)
WeekDays == 7
(* getcontext().prec, validators.py:13; the rounding is ROUND_DOWN *)
prec == 10

(* ---- bounds of the model ---- *)
(* number of process_transaction calls in one run *)
MaxTx == 4
(* number of transactions in one file *)
MaxLines == 3
(* largest integer PrimeNumberChecker.is_prime is called with *)
MaxPrimeArg == 10000
(* number of entries of a weekly log at the start of the pruning loop *)
MaxLog == 3

(* ---- inputs ---- *)
Customers == {"999"}
(* 2023-01-03 Tue, 01-04 Wed, 01-05 Thu, 01-09 Mon, 01-11 Wed *)
Days == {2, 3, 4, 8, 10}
(* transaction ids "2", "3" (prime, shorter than the minimum) and "100" *)
Ids == {2, 3, 100}
(* "$1.00", "$5000.00", "$9999.00" *)
Amounts == {100, 500000, 999900}
(* "-1.00": AmountParser.parse admits no sign *)
BadAmounts == {-100}

(* "2023-13-01T10:00:00Z": ends in Z as Transaction requires, yet is no ISO
   timestamp; a time that does not parse has no day number and is written as a
   negative one *)
BadTimes == {-1}

(* the hour of the time string: "T10:00:00Z" *)
Hours == {10}

(* time is the calendar date of the time string, hour its time of day *)
Transactions ==
    [id : Ids, customer_id : Customers, load_amount : Amounts, time : Days,
     hour : Hours]
      \cup [id : {100}, customer_id : Customers, load_amount : BadAmounts,
            time : {3} \cup BadTimes, hour : Hours]
      \cup [id : {100}, customer_id : Customers, load_amount : {100}, time : BadTimes,
            hour : Hours]

BusinessRules == {"daily_limit", "daily_count", "weekly_limit", "prime_id"}
RuleNames == BusinessRules \cup {"anomaly"}

VARIABLES
    customer_daily_totals,         \* DailyLimitRule
    customer_daily_counts,         \* DailyCountRule
    customer_weekly_transactions,  \* WeeklyLimitRule: deque of <<date, amount>>
    prime_id_daily_totals,         \* PrimeIdRule
    prime_id_daily_counts,         \* PrimeIdRule
    customer_transaction_counts,   \* AnomalyRule
    transaction_id_counts,         \* AnomalyRule
    result,                        \* the ProcessingResult of the last call
    ledger,                        \* the accepted transactions, in order of acceptance
    calls,                         \* number of process_transaction calls so far
    last_time,                     \* latest date a call's timestamp parsed to
    sorted_feed,                   \* the caller feeds transactions sorted by timestamp
    arg,                           \* the argument of a call of a pure function
    ret,                           \* what that call has computed so far
    lines,                         \* process_file: the transactions read, in file order
    queue,                         \* process_file: the sorted transactions not yet processed
    results,                       \* process_file: the ProcessingResults so far
    file_status,                   \* process_file: "none", "read", "sorted", "done", "raised"
    pending,                       \* per thread: the call between evaluation and recording
    serialized                     \* the host runs one process_transaction call at a time

rule_state == <<customer_daily_totals, customer_daily_counts,
                customer_weekly_transactions, prime_id_daily_totals,
                prime_id_daily_counts, customer_transaction_counts,
                transaction_id_counts>>
pure_vars == <<arg, ret>>
file_vars == <<lines, queue, results, file_status>>
thread_vars == <<pending, serialized>>
vars == <<customer_daily_totals, customer_daily_counts,
          customer_weekly_transactions, prime_id_daily_totals,
          prime_id_daily_counts, customer_transaction_counts,
          transaction_id_counts, result, ledger, calls, last_time, sorted_feed,
          arg, ret, lines, queue, results, file_status, pending, serialized>>

(* ---- validators.py ---- *)

(* int(math.sqrt(num)) *)
Isqrt(n) == CHOOSE r \in 0..n : r * r <= n /\ (r + 1) * (r + 1) > n

(* mutant: the trial divisors stop short of the square root *)
is_prime_ShortRange(num) ==
    IF num < 2 THEN FALSE
    ELSE IF num = 2 THEN TRUE
    ELSE IF num % 2 = 0 THEN FALSE
    ELSE \A i \in 3..(Isqrt(num) - 1) : (i % 2 = 1) => (num % i # 0)

(* PrimeNumberChecker.is_prime on the integer value of a digit string *)
is_prime(num) ==
    IF num < 2 THEN FALSE
    ELSE IF num = 2 THEN TRUE
    ELSE IF num % 2 = 0 THEN FALSE
    ELSE \A i \in 3..Isqrt(num) : (i % 2 = 1) => (num % i # 0)

(* len() of the decimal digit string of an id without leading zeros *)
RECURSIVE StrLen(_)
StrLen(n) == IF n < 10 THEN 1 ELSE 1 + StrLen(n \div 10)

(* AmountParser.parse: TRUE when the cleaned string matches ^\d+\.?\d*$,
   which no signed amount does *)
ParsesAmount(load_amount) == load_amount >= 0

(* DateUtils.parse_timestamp: TRUE when datetime.fromisoformat accepts the
   string *)
ParsesTime(time) == time >= 0

(* datetime.isoweekday of day number d; day 0 is Sunday 2023-01-01 *)
isoweekday(d) == ((d + 6) % 7) + 1

(* DateUtils.is_monday *)
is_monday(d) == isoweekday(d) = 1

(* mutant: the window reaches back one day too far *)
get_rolling_week_dates_EightDays(d) == {d - i : i \in 0..WeekDays}

(* DateUtils.get_rolling_week_dates, as the set WeeklyLimitRule makes of it *)
get_rolling_week_dates(d) == {d - i : i \in 0..(WeekDays - 1)}

(* ---- Decimal amounts and amount strings ---- *)

(* a Decimal amount with two fractional digits: whole units and hundredths *)
Dec(units, cents) == [units |-> units, cents |-> cents]
DecOfCents(n) == Dec(n \div 100, n % 100)
CentsOfDec(x) == x.units * 100 + x.cents

(* number of digits of a coefficient; zero has none *)
RECURSIVE NumDigits(_)
NumDigits(n) == IF n = 0 THEN 0 ELSE 1 + NumDigits(n \div 10)

RECURSIVE Pow10(_)
Pow10(k) == IF k = 0 THEN 1 ELSE 10 * Pow10(k - 1)

(* the decimal context applied to the exact result of an arithmetic operation:
   the coefficient keeps its prec leading digits, ROUND_DOWN drops the rest *)
ContextRound(x) ==
    LET drop == NumDigits(x.units) + 2 - prec
    IN IF x.units = 0 \/ drop <= 0 THEN x
       ELSE IF drop = 1 THEN Dec(x.units, (x.cents \div 10) * 10)
       ELSE Dec((x.units \div Pow10(drop - 2)) * Pow10(drop - 2), 0)

(* Decimal * int: the exact product, rounded by the context *)
DecTimes(x, m) ==
    LET c == x.cents * m
    IN ContextRound(Dec(x.units * m + (c \div 100), c % 100))

(* a string is the sequence of its characters *)
DigitChars == <<"0", "1", "2", "3", "4", "5", "6", "7", "8", "9">>
IsDigit(ch) == \E i \in 1..Len(DigitChars) : DigitChars[i] = ch
DigitValue(ch) == (CHOOSE i \in 1..Len(DigitChars) : DigitChars[i] = ch) - 1

(* str.replace(ch, '') *)
RemoveChar(s, ch) == SelectSeq(s, LAMBDA x : x # ch)

(* str.replace('USD', '') *)
RECURSIVE RemoveUSD(_)
RemoveUSD(s) ==
    IF Len(s) < 3 THEN s
    ELSE IF SubSeq(s, 1, 3) = <<"U", "S", "D">> THEN RemoveUSD(SubSeq(s, 4, Len(s)))
    ELSE <<Head(s)>> \o RemoveUSD(Tail(s))

(* AmountParser.parse: the cleaned string *)
CleanAmount(s) == RemoveUSD(RemoveChar(RemoveChar(s, ","), "$"))

(* re.match(r'^\d+\.?\d*$', cleaned) *)
MatchesAmount(s) ==
    /\ Len(s) > 0
    /\ IsDigit(s[1])
    /\ \A i \in 1..Len(s) : IsDigit(s[i]) \/ s[i] = "."
    /\ Cardinality({i \in 1..Len(s) : s[i] = "."}) <= 1

(* the value of a string of digits; the empty string counts as zero *)
RECURSIVE DigitsValue(_)
DigitsValue(s) ==
    IF s = <<>> THEN 0
    ELSE DigitsValue(SubSeq(s, 1, Len(s) - 1)) * 10 + DigitValue(s[Len(s)])

(* the digits before and after the point of a matching string *)
IntDigits(s) ==
    IF \E i \in 1..Len(s) : s[i] = "."
    THEN SubSeq(s, 1, (CHOOSE i \in 1..Len(s) : s[i] = ".") - 1)
    ELSE s
FracDigits(s) ==
    IF \E i \in 1..Len(s) : s[i] = "."
    THEN SubSeq(s, (CHOOSE i \in 1..Len(s) : s[i] = ".") + 1, Len(s))
    ELSE <<>>

(* Decimal(s).quantize(Decimal('0.01')) under ROUND_DOWN: the value of s cut
   after its second fractional digit *)
Quantize(s) ==
    LET f == FracDigits(s) \o <<"0", "0">>
    IN Dec(DigitsValue(IntDigits(s)), DigitsValue(SubSeq(f, 1, 2)))

(* AmountParser.parse.  quantize raises decimal.InvalidOperation when the
   quantized coefficient has more than prec digits *)
parse(amount_str) ==
    LET cleaned == CleanAmount(amount_str)
    IN IF ~MatchesAmount(cleaned)
       THEN [ok |-> FALSE, error |-> "Malformed amount string"]
       ELSE IF NumDigits(Quantize(cleaned).units) + 2 > prec
       THEN [ok |-> FALSE, error |-> "InvalidOperation"]
       ELSE [ok |-> TRUE, value |-> Quantize(cleaned)]

(* the digits of a natural number *)
RECURSIVE NatChars(_)
NatChars(n) ==
    IF n < 10 THEN <<DigitChars[n + 1]>>
    ELSE NatChars(n \div 10) \o <<DigitChars[(n % 10) + 1]>>

(* f"{amount:.2f}" of an amount with at most two fractional digits *)
FormatAmount(x) ==
    NatChars(x.units) \o <<".">>
        \o <<DigitChars[(x.cents \div 10) + 1], DigitChars[(x.cents % 10) + 1]>>

(* str.strip() of blanks *)
RECURSIVE StripBlanks(_)
StripBlanks(s) ==
    IF s = <<>> THEN s
    ELSE IF Head(s) = " " THEN StripBlanks(Tail(s))
    ELSE IF s[Len(s)] = " " THEN StripBlanks(SubSeq(s, 1, Len(s) - 1))
    ELSE s

(* the digits of an integer literal: single underscores may separate them *)
IsDigitGroup(s) ==
    /\ Len(s) > 0
    /\ IsDigit(s[1])
    /\ IsDigit(s[Len(s)])
    /\ \A i \in 1..Len(s) : IsDigit(s[i]) \/ s[i] = "_"
    /\ \A i \in 1..(Len(s) - 1) : ~(s[i] = "_" /\ s[i + 1] = "_")

(* the literal of int(n) without blanks and sign *)
Unsigned(n) ==
    LET t == StripBlanks(n)
    IN IF t # <<>> /\ Head(t) \in {"+", "-"} THEN Tail(t) ELSE t

(* int(n) does not raise ValueError *)
ParsesInt(n) == IsDigitGroup(Unsigned(n))

(* int(n) *)
IntOf(n) ==
    LET t == StripBlanks(n)
        magnitude == DigitsValue(RemoveChar(Unsigned(n), "_"))
    IN IF Head(t) = "-" THEN 0 - magnitude ELSE magnitude

(* PrimeNumberChecker.is_prime *)
is_prime_of_string(n) == IF ParsesInt(n) THEN is_prime(IntOf(n)) ELSE FALSE

(* MondayMultiplier.apply: (effective amount, is_monday) *)
apply(transaction_date, amount) ==
    IF is_monday(transaction_date)
    THEN [effective |-> DecTimes(amount, monday_multiplier), is_monday |-> TRUE]
    ELSE [effective |-> amount, is_monday |-> FALSE]

(* mutant: the multiplier is applied on every day of the week *)
MondayApply_EveryDay(d, amount) == amount * monday_multiplier

(* MondayMultiplier.apply on an amount in cents: the effective amount *)
MondayApply(d, amount) == CentsOfDec(apply(d, DecOfCents(amount)).effective)

(* ---- rules.py ---- *)

(* RuleResult; a reason or details of None is the string "None" *)
RuleResult(passed, reason, details) ==
    [passed |-> passed, reason |-> reason, details |-> details]

(* mutant: a total that reaches the limit exactly is refused *)
Exceeds_OrReaches(new_total, limit) == new_total >= limit

(* the comparison of a new running total with a limit *)
Exceeds(new_total, limit) == new_total > limit

(* mutant: the amount alone is compared with the limit *)
DailyLimitEvaluate_IgnoresTotal(customer_id, date, amount) ==
    LET current_total == customer_daily_totals[customer_id][date]
    IN IF Exceeds(amount, daily_limit)
       THEN RuleResult(FALSE, "DAILY_LIMIT_EXCEEDED",
                       [current_daily_total |-> current_total, attempted |-> amount,
                        limit |-> daily_limit])
       ELSE RuleResult(TRUE, "None",
                       [current_daily_total |-> current_total, attempted |-> amount])

(* DailyLimitRule.evaluate *)
(* mutant: the total of the day before is counted with the day's own *)
DailyLimitEvaluate_WithYesterday(customer_id, date, amount) ==
    LET current_total == customer_daily_totals[customer_id][date]
                         + (IF date - 1 \in Days
                            THEN customer_daily_totals[customer_id][date - 1] ELSE 0)
        new_total == current_total + amount
    IN IF Exceeds(new_total, daily_limit)
       THEN RuleResult(FALSE, "DAILY_LIMIT_EXCEEDED",
                       [current_daily_total |-> current_total, attempted |-> amount,
                        limit |-> daily_limit])
       ELSE RuleResult(TRUE, "None",
                       [current_daily_total |-> current_total, attempted |-> amount])

DailyLimitEvaluate(customer_id, date, amount) ==
    LET current_total == customer_daily_totals[customer_id][date]
        new_total == current_total + amount
    IN IF Exceeds(new_total, daily_limit)
       THEN RuleResult(FALSE, "DAILY_LIMIT_EXCEEDED",
                       [current_daily_total |-> current_total, attempted |-> amount,
                        limit |-> daily_limit])
       ELSE RuleResult(TRUE, "None",
                       [current_daily_total |-> current_total, attempted |-> amount])

(* mutant: the count may pass the limit by one *)
DailyCountEvaluate_OffByOne(customer_id, date) ==
    LET current_count == customer_daily_counts[customer_id][date]
    IN IF current_count > daily_load_count
       THEN RuleResult(FALSE, "DAILY_COUNT_EXCEEDED",
                       [current_daily_count |-> current_count,
                        limit |-> daily_load_count])
       ELSE RuleResult(TRUE, "None", [current_daily_count |-> current_count])

(* DailyCountRule.evaluate *)
DailyCountEvaluate(customer_id, date) ==
    LET current_count == customer_daily_counts[customer_id][date]
    IN IF current_count >= daily_load_count
       THEN RuleResult(FALSE, "DAILY_COUNT_EXCEEDED",
                       [current_daily_count |-> current_count,
                        limit |-> daily_load_count])
       ELSE RuleResult(TRUE, "None", [current_daily_count |-> current_count])

(* mutant: the loop removes nothing *)
PruneFront_KeepsAll(transactions, week_dates) == transactions

(* mutant: every entry dated outside the window is removed, wherever it is *)
PruneFront_Everywhere(transactions, week_dates) ==
    SelectSeq(transactions, LAMBDA e : e[1] \in week_dates)

(* mutant: only entries that fell out of the window on its old side are removed *)
RECURSIVE PruneFront_KeepsFuture(_, _)
PruneFront_KeepsFuture(transactions, week_dates) ==
    IF transactions # <<>> /\ \A d \in week_dates : transactions[1][1] < d
    THEN PruneFront_KeepsFuture(Tail(transactions), week_dates)
    ELSE transactions

(* WeeklyLimitRule.evaluate, the loop that pops entries from the front *)
RECURSIVE PruneFront(_, _)
PruneFront(transactions, week_dates) ==
    IF transactions # <<>> /\ transactions[1][1] \notin week_dates
    THEN PruneFront(Tail(transactions), week_dates)
    ELSE transactions

(* WeeklyLimitRule.evaluate: sum of the amounts of the entries dated in the window *)
RECURSIVE SumInWindow(_, _)
SumInWindow(transactions, week_dates) ==
    IF transactions = <<>> THEN 0
    ELSE (IF transactions[1][1] \in week_dates THEN transactions[1][2] ELSE 0)
         + SumInWindow(Tail(transactions), week_dates)

(* WeeklyLimitRule.evaluate: the log it leaves behind *)
WeeklyPruned(customer_id, transaction_date) ==
    PruneFront(customer_weekly_transactions[customer_id],
               get_rolling_week_dates(transaction_date))

(* WeeklyLimitRule.evaluate: current_total *)
WeeklyCurrentTotal(customer_id, transaction_date) ==
    SumInWindow(WeeklyPruned(customer_id, transaction_date),
                get_rolling_week_dates(transaction_date))

(* mutant: the weekly rule compares the amount alone with the limit *)
WeeklyLimitEvaluate_IgnoresTotal(customer_id, transaction_date, amount) ==
    LET current_total == WeeklyCurrentTotal(customer_id, transaction_date)
        new_total == amount
    IN IF Exceeds(new_total, weekly_limit)
       THEN RuleResult(FALSE, "WEEKLY_LIMIT_EXCEEDED",
                       [rolling_7d_total |-> current_total, attempted |-> amount,
                        limit |-> weekly_limit])
       ELSE RuleResult(TRUE, "None",
                       [rolling_7d_total |-> current_total, attempted |-> amount])

(* WeeklyLimitRule.evaluate: the RuleResult *)
WeeklyLimitEvaluate(customer_id, transaction_date, amount) ==
    LET current_total == WeeklyCurrentTotal(customer_id, transaction_date)
        new_total == current_total + amount
    IN IF Exceeds(new_total, weekly_limit)
       THEN RuleResult(FALSE, "WEEKLY_LIMIT_EXCEEDED",
                       [rolling_7d_total |-> current_total, attempted |-> amount,
                        limit |-> weekly_limit])
       ELSE RuleResult(TRUE, "None",
                       [rolling_7d_total |-> current_total, attempted |-> amount])

(* AnomalyRule.evaluate *)
(* mutant: a customer is flagged on reaching the threshold *)
AnomalyEvaluate_AtThreshold(customer_id, transaction_id) ==
    LET customer_count == customer_transaction_counts[customer_id]
        transaction_count == transaction_id_counts[transaction_id]
    IN IF Len(customer_id) < min_customer_id_length
       THEN RuleResult(FALSE, "CUSTOMER_ID_TOO_SHORT",
                       [customer_id_length |-> Len(customer_id),
                        minimum_length |-> min_customer_id_length])
       ELSE IF StrLen(transaction_id) < min_transaction_id_length
       THEN RuleResult(FALSE, "TRANSACTION_ID_TOO_SHORT",
                       [transaction_id_length |-> StrLen(transaction_id),
                        minimum_length |-> min_transaction_id_length])
       ELSE IF customer_count >= AnomalyThreshold
       THEN RuleResult(FALSE, "CUSTOMER_ANOMALY_DETECTED",
                       [customer_transaction_count |-> customer_count,
                        threshold |-> AnomalyThreshold])
       ELSE IF transaction_count > 0
       THEN RuleResult(FALSE, "DUPLICATE_TRANSACTION_ID",
                       [transaction_id_count |-> transaction_count])
       ELSE RuleResult(TRUE, "NO_ANOMALY_DETECTED",
                       [customer_transaction_count |-> customer_count,
                        transaction_id_count |-> transaction_count])

(* mutant: an id counts as seen only for a customer with recorded transactions *)
AnomalyEvaluate_PerCustomer(customer_id, transaction_id) ==
    LET customer_count == customer_transaction_counts[customer_id]
        transaction_count == transaction_id_counts[transaction_id]
    IN IF Len(customer_id) < min_customer_id_length
       THEN RuleResult(FALSE, "CUSTOMER_ID_TOO_SHORT",
                       [customer_id_length |-> Len(customer_id),
                        minimum_length |-> min_customer_id_length])
       ELSE IF StrLen(transaction_id) < min_transaction_id_length
       THEN RuleResult(FALSE, "TRANSACTION_ID_TOO_SHORT",
                       [transaction_id_length |-> StrLen(transaction_id),
                        minimum_length |-> min_transaction_id_length])
       ELSE IF customer_count > AnomalyThreshold
       THEN RuleResult(FALSE, "CUSTOMER_ANOMALY_DETECTED",
                       [customer_transaction_count |-> customer_count,
                        threshold |-> AnomalyThreshold])
       ELSE IF transaction_count > 0 /\ customer_count > 0
       THEN RuleResult(FALSE, "DUPLICATE_TRANSACTION_ID",
                       [transaction_id_count |-> transaction_count])
       ELSE RuleResult(TRUE, "NO_ANOMALY_DETECTED",
                       [customer_transaction_count |-> customer_count,
                        transaction_id_count |-> transaction_count])

AnomalyEvaluate(customer_id, transaction_id) ==
    LET customer_count == customer_transaction_counts[customer_id]
        transaction_count == transaction_id_counts[transaction_id]
    IN IF Len(customer_id) < min_customer_id_length
       THEN RuleResult(FALSE, "CUSTOMER_ID_TOO_SHORT",
                       [customer_id_length |-> Len(customer_id),
                        minimum_length |-> min_customer_id_length])
       ELSE IF StrLen(transaction_id) < min_transaction_id_length
       THEN RuleResult(FALSE, "TRANSACTION_ID_TOO_SHORT",
                       [transaction_id_length |-> StrLen(transaction_id),
                        minimum_length |-> min_transaction_id_length])
       ELSE IF customer_count > AnomalyThreshold
       THEN RuleResult(FALSE, "CUSTOMER_ANOMALY_DETECTED",
                       [customer_transaction_count |-> customer_count,
                        threshold |-> AnomalyThreshold])
       ELSE IF transaction_count > 0
       THEN RuleResult(FALSE, "DUPLICATE_TRANSACTION_ID",
                       [transaction_id_count |-> transaction_count])
       ELSE RuleResult(TRUE, "NO_ANOMALY_DETECTED",
                       [customer_transaction_count |-> customer_count,
                        transaction_id_count |-> transaction_count])

(* mutant: the prime-id count may pass the limit by one *)
PrimeIdEvaluate_OffByOne(customer_id, date, amount) ==
    LET current_count == prime_id_daily_counts[customer_id][date]
        current_total == prime_id_daily_totals[customer_id][date]
        new_total == current_total + amount
    IN IF current_count > prime_id_daily_count
       THEN RuleResult(FALSE, "PRIME_ID_DAILY_COUNT_EXCEEDED",
                       [prime_id_daily_count |-> current_count,
                        limit |-> prime_id_daily_count])
       ELSE IF Exceeds(new_total, prime_id_daily_limit)
       THEN RuleResult(FALSE, "PRIME_ID_DAILY_LIMIT_EXCEEDED",
                       [prime_id_daily_total |-> current_total, attempted |-> amount,
                        limit |-> prime_id_daily_limit])
       ELSE RuleResult(TRUE, "PRIME_ID_APPROVED",
                       [prime_id_daily_count |-> current_count,
                        prime_id_daily_total |-> current_total,
                        attempted |-> amount])

(* PrimeIdRule.evaluate *)
(* mutant: the prime-id rule checks the count only *)
PrimeIdEvaluate_CountOnly(customer_id, date, amount) ==
    LET current_count == prime_id_daily_counts[customer_id][date]
        current_total == prime_id_daily_totals[customer_id][date]
    IN IF current_count >= prime_id_daily_count
       THEN RuleResult(FALSE, "PRIME_ID_DAILY_COUNT_EXCEEDED",
                       [prime_id_daily_count |-> current_count,
                        limit |-> prime_id_daily_count])
       ELSE RuleResult(TRUE, "PRIME_ID_APPROVED",
                       [prime_id_daily_count |-> current_count,
                        prime_id_daily_total |-> current_total,
                        attempted |-> amount])

(* the rule with its two checks exchanged: amount first, count second *)
PrimeIdEvaluate_AmountFirst(customer_id, date, amount) ==
    LET current_count == prime_id_daily_counts[customer_id][date]
        current_total == prime_id_daily_totals[customer_id][date]
        new_total == current_total + amount
    IN IF Exceeds(new_total, prime_id_daily_limit)
       THEN RuleResult(FALSE, "PRIME_ID_DAILY_LIMIT_EXCEEDED",
                       [prime_id_daily_total |-> current_total, attempted |-> amount,
                        limit |-> prime_id_daily_limit])
       ELSE IF current_count >= prime_id_daily_count
       THEN RuleResult(FALSE, "PRIME_ID_DAILY_COUNT_EXCEEDED",
                       [prime_id_daily_count |-> current_count,
                        limit |-> prime_id_daily_count])
       ELSE RuleResult(TRUE, "PRIME_ID_APPROVED",
                       [prime_id_daily_count |-> current_count,
                        prime_id_daily_total |-> current_total,
                        attempted |-> amount])

PrimeIdEvaluate(customer_id, date, amount) ==
    LET current_count == prime_id_daily_counts[customer_id][date]
        current_total == prime_id_daily_totals[customer_id][date]
        new_total == current_total + amount
    IN IF current_count >= prime_id_daily_count
       THEN RuleResult(FALSE, "PRIME_ID_DAILY_COUNT_EXCEEDED",
                       [prime_id_daily_count |-> current_count,
                        limit |-> prime_id_daily_count])
       ELSE IF Exceeds(new_total, prime_id_daily_limit)
       THEN RuleResult(FALSE, "PRIME_ID_DAILY_LIMIT_EXCEEDED",
                       [prime_id_daily_total |-> current_total, attempted |-> amount,
                        limit |-> prime_id_daily_limit])
       ELSE RuleResult(TRUE, "PRIME_ID_APPROVED",
                       [prime_id_daily_count |-> current_count,
                        prime_id_daily_total |-> current_total,
                        attempted |-> amount])

(* mutant: the daily rules are evaluated for prime ids too *)
evaluate_all_rules_NoBypass(customer_id, transaction_id, date, amount) ==
    [r \in RuleNames |->
        CASE r = "daily_limit" -> DailyLimitEvaluate(customer_id, date, amount)
          [] r = "daily_count" -> DailyCountEvaluate(customer_id, date)
          [] r = "weekly_limit" -> WeeklyLimitEvaluate(customer_id, date, amount)
          [] r = "prime_id" -> IF is_prime(transaction_id)
                               THEN PrimeIdEvaluate(customer_id, date, amount)
                               ELSE RuleResult(TRUE, "NOT_PRIME_ID", "None")
          [] r = "anomaly" -> AnomalyEvaluate(customer_id, transaction_id)]

(* mutant: prime ids bypass the weekly limit as they bypass the daily rules *)
evaluate_all_rules_PrimeSkipsWeekly(customer_id, transaction_id, date, amount) ==
    IF ~is_prime(transaction_id)
    THEN [r \in RuleNames |->
            CASE r = "daily_limit" -> DailyLimitEvaluate(customer_id, date, amount)
              [] r = "daily_count" -> DailyCountEvaluate(customer_id, date)
              [] r = "weekly_limit" -> WeeklyLimitEvaluate(customer_id, date, amount)
              [] r = "prime_id" -> RuleResult(TRUE, "NOT_PRIME_ID", "None")
              [] r = "anomaly" -> AnomalyEvaluate(customer_id, transaction_id)]
    ELSE [r \in RuleNames |->
            CASE r = "daily_limit" -> RuleResult(TRUE, "PRIME_ID", "None")
              [] r = "daily_count" -> RuleResult(TRUE, "PRIME_ID", "None")
              [] r = "weekly_limit" -> RuleResult(TRUE, "PRIME_ID", "None")
              [] r = "prime_id" -> PrimeIdEvaluate(customer_id, date, amount)
              [] r = "anomaly" -> AnomalyEvaluate(customer_id, transaction_id)]

(* RuleEngine.evaluate_all_rules: the mapping rule name -> RuleResult *)
(* mutant: on the non-prime path the rules after the first failing one are
   skipped and reported as passed *)
evaluate_all_rules_ShortCircuit(customer_id, transaction_id, date, amount) ==
    LET daily_limit_result == DailyLimitEvaluate(customer_id, date, amount)
        daily_count_result == DailyCountEvaluate(customer_id, date)
        weekly_limit_result == WeeklyLimitEvaluate(customer_id, date, amount)
        Skipped(r) == [r EXCEPT !.passed = TRUE, !.reason = "None"]
    IN IF ~is_prime(transaction_id)
       THEN [r \in RuleNames |->
               CASE r = "daily_limit" -> daily_limit_result
                 [] r = "daily_count" ->
                      IF daily_limit_result.passed THEN daily_count_result
                      ELSE Skipped(daily_count_result)
                 [] r = "weekly_limit" ->
                      IF daily_limit_result.passed /\ daily_count_result.passed
                      THEN weekly_limit_result ELSE Skipped(weekly_limit_result)
                 [] r = "prime_id" -> RuleResult(TRUE, "NOT_PRIME_ID", "None")
                 [] r = "anomaly" -> AnomalyEvaluate(customer_id, transaction_id)]
       ELSE [r \in RuleNames |->
               CASE r = "daily_limit" -> RuleResult(TRUE, "PRIME_ID", "None")
                 [] r = "daily_count" -> RuleResult(TRUE, "PRIME_ID", "None")
                 [] r = "weekly_limit" -> weekly_limit_result
                 [] r = "prime_id" -> PrimeIdEvaluate(customer_id, date, amount)
                 [] r = "anomaly" -> AnomalyEvaluate(customer_id, transaction_id)]

evaluate_all_rules(customer_id, transaction_id, date, amount) ==
    IF ~is_prime(transaction_id)
    THEN [r \in RuleNames |->
            CASE r = "daily_limit" -> DailyLimitEvaluate(customer_id, date, amount)
              [] r = "daily_count" -> DailyCountEvaluate(customer_id, date)
              [] r = "weekly_limit" -> WeeklyLimitEvaluate(customer_id, date, amount)
              [] r = "prime_id" -> RuleResult(TRUE, "NOT_PRIME_ID", "None")
              [] r = "anomaly" -> AnomalyEvaluate(customer_id, transaction_id)]
    ELSE [r \in RuleNames |->
            CASE r = "daily_limit" -> RuleResult(TRUE, "PRIME_ID", "None")
              [] r = "daily_count" -> RuleResult(TRUE, "PRIME_ID", "None")
              [] r = "weekly_limit" -> WeeklyLimitEvaluate(customer_id, date, amount)
              [] r = "prime_id" -> PrimeIdEvaluate(customer_id, date, amount)
              [] r = "anomaly" -> AnomalyEvaluate(customer_id, transaction_id)]

(* ---- processor.py ---- *)

(* mutant: the anomaly result takes part in the decision *)
Accepted_WithAnomaly(rule_results) == \A r \in RuleNames : rule_results[r].passed

(* mutant: the weekly limit result is left out of the decision *)
Accepted_DailyOnly(rule_results) ==
    \A r \in BusinessRules \ {"weekly_limit"} : rule_results[r].passed

(* process_transaction: all(result.passed for the four business rules) *)
Accepted(rule_results) == \A r \in BusinessRules : rule_results[r].passed

NoResult ==
    [id |-> 0, customer_id |-> "", accepted |-> FALSE, original_amount |-> 0,
     effective_amount |-> 0, is_monday |-> FALSE, time |-> 0, hour |-> 0,
     rules_evaluated |-> <<>>, error |-> "no call yet"]

(* FundProcessor.__init__: a fresh RuleEngine, nothing processed yet *)
InitProcessor ==
    /\ customer_daily_totals = [c \in Customers |-> [d \in Days |-> 0]]
    /\ customer_daily_counts = [c \in Customers |-> [d \in Days |-> 0]]
    /\ customer_weekly_transactions = [c \in Customers |-> <<>>]
    /\ prime_id_daily_totals = [c \in Customers |-> [d \in Days |-> 0]]
    /\ prime_id_daily_counts = [c \in Customers |-> [d \in Days |-> 0]]
    /\ customer_transaction_counts = [c \in Customers |-> 0]
    /\ transaction_id_counts = [i \in Ids |-> 0]
    /\ result = NoResult
    /\ ledger = <<>>
    /\ calls = 0
    /\ last_time = 0

(* no call of a pure function under way *)
NoPureCall == arg = [kind |-> "none"] /\ ret = [stage |-> "none"]
(* no process_file under way *)
NoFile == lines = <<>> /\ queue = <<>> /\ results = <<>> /\ file_status = "none"
(* one thread only, calls run one at a time *)
NoThreads == pending = [t \in {} |-> 0] /\ serialized = TRUE

Init ==
    /\ InitProcessor
    /\ sorted_feed = TRUE
    /\ NoPureCall
    /\ NoFile
    /\ NoThreads

(* mutant: a prime id is recorded by PrimeIdRule only, any other id by the
   daily rules only *)
record_accepted_transaction_ByPath(customer_id, transaction_id, date, amount, pruned) ==
    /\ customer_daily_totals' =
         IF is_prime(transaction_id) THEN customer_daily_totals
         ELSE [customer_daily_totals EXCEPT ![customer_id][date] = @ + amount]
    /\ customer_daily_counts' =
         IF is_prime(transaction_id) THEN customer_daily_counts
         ELSE [customer_daily_counts EXCEPT ![customer_id][date] = @ + 1]
    /\ customer_weekly_transactions' =
         [customer_weekly_transactions EXCEPT
            ![customer_id] = Append(pruned, <<date, amount>>)]
    /\ prime_id_daily_totals' =
         IF ~is_prime(transaction_id) THEN prime_id_daily_totals
         ELSE [prime_id_daily_totals EXCEPT ![customer_id][date] = @ + amount]
    /\ prime_id_daily_counts' =
         IF ~is_prime(transaction_id) THEN prime_id_daily_counts
         ELSE [prime_id_daily_counts EXCEPT ![customer_id][date] = @ + 1]
    /\ customer_transaction_counts' =
         [customer_transaction_counts EXCEPT ![customer_id] = @ + 1]
    /\ transaction_id_counts' =
         [transaction_id_counts EXCEPT ![transaction_id] = @ + 1]

(* mutant: an accepted transaction is not counted by the anomaly rule *)
record_accepted_transaction_SkipsAnomaly(customer_id, transaction_id, date, amount, pruned) ==
    /\ customer_daily_totals' =
         [customer_daily_totals EXCEPT ![customer_id][date] = @ + amount]
    /\ customer_daily_counts' =
         [customer_daily_counts EXCEPT ![customer_id][date] = @ + 1]
    /\ customer_weekly_transactions' =
         [customer_weekly_transactions EXCEPT
            ![customer_id] = Append(pruned, <<date, amount>>)]
    /\ prime_id_daily_totals' =
         [prime_id_daily_totals EXCEPT ![customer_id][date] = @ + amount]
    /\ prime_id_daily_counts' =
         [prime_id_daily_counts EXCEPT ![customer_id][date] = @ + 1]
    /\ UNCHANGED <<customer_transaction_counts, transaction_id_counts>>

(* RuleEngine.record_accepted_transaction *)
(* mutant: the daily total and count are raised for every customer *)
record_accepted_transaction_AllCustomers(customer_id, transaction_id, date, amount, pruned) ==
    /\ customer_daily_totals' =
         [c \in DOMAIN customer_daily_totals |->
            [customer_daily_totals[c] EXCEPT ![date] = @ + amount]]
    /\ customer_daily_counts' =
         [c \in DOMAIN customer_daily_counts |->
            [customer_daily_counts[c] EXCEPT ![date] = @ + 1]]
    /\ customer_weekly_transactions' =
         [customer_weekly_transactions EXCEPT
            ![customer_id] = Append(pruned, <<date, amount>>)]
    /\ prime_id_daily_totals' =
         [prime_id_daily_totals EXCEPT ![customer_id][date] = @ + amount]
    /\ prime_id_daily_counts' =
         [prime_id_daily_counts EXCEPT ![customer_id][date] = @ + 1]
    /\ customer_transaction_counts' =
         [customer_transaction_counts EXCEPT ![customer_id] = @ + 1]
    /\ transaction_id_counts' =
         [transaction_id_counts EXCEPT ![transaction_id] = @ + 1]

record_accepted_transaction(customer_id, transaction_id, date, amount, pruned) ==
    /\ customer_daily_totals' =
         [customer_daily_totals EXCEPT ![customer_id][date] = @ + amount]
    /\ customer_daily_counts' =
         [customer_daily_counts EXCEPT ![customer_id][date] = @ + 1]
    /\ customer_weekly_transactions' =
         [customer_weekly_transactions EXCEPT
            ![customer_id] = Append(pruned, <<date, amount>>)]
    /\ prime_id_daily_totals' =
         [prime_id_daily_totals EXCEPT ![customer_id][date] = @ + amount]
    /\ prime_id_daily_counts' =
         [prime_id_daily_counts EXCEPT ![customer_id][date] = @ + 1]
    /\ customer_transaction_counts' =
         [customer_transaction_counts EXCEPT ![customer_id] = @ + 1]
    /\ transaction_id_counts' =
         [transaction_id_counts EXCEPT ![transaction_id] = @ + 1]

(* mutant: the exception leaves process_transaction, no result is returned *)
ProcessError_Raises(tx) ==
    /\ ~ParsesAmount(tx.load_amount) \/ ~ParsesTime(tx.time)
    /\ UNCHANGED <<result, rule_state, ledger>>

(* process_transaction, the except branch: AmountParser.parse raised, or
   DateUtils.parse_timestamp did after the amount was parsed *)
ProcessError(tx) ==
    /\ ~ParsesAmount(tx.load_amount) \/ ~ParsesTime(tx.time)
    /\ result' = [id |-> tx.id, customer_id |-> tx.customer_id, accepted |-> FALSE,
                  original_amount |-> tx.load_amount,
                  effective_amount |-> tx.load_amount, is_monday |-> FALSE,
                  time |-> tx.time, hour |-> tx.hour, rules_evaluated |-> <<>>,
                  error |-> IF ~ParsesAmount(tx.load_amount)
                            THEN "Malformed amount string"
                            ELSE "Invalid isoformat string"]
    /\ UNCHANGED <<rule_state, ledger>>

(* process_transaction, the try branch *)
ProcessRules(tx) ==
    /\ ParsesAmount(tx.load_amount)
    /\ ParsesTime(tx.time)
    /\ LET transaction_date == tx.time
           effective_amount == MondayApply(transaction_date, tx.load_amount)
           rule_results == evaluate_all_rules(tx.customer_id, tx.id,
                                              transaction_date, effective_amount)
           accepted == Accepted(rule_results)
           pruned == WeeklyPruned(tx.customer_id, transaction_date)
       IN /\ IF accepted
             THEN /\ record_accepted_transaction(tx.customer_id, tx.id,
                                                 transaction_date, effective_amount,
                                                 pruned)
                  /\ ledger' = Append(ledger,
                                 [id |-> tx.id, customer_id |-> tx.customer_id,
                                  date |-> transaction_date,
                                  amount |-> effective_amount])
             ELSE /\ customer_weekly_transactions' =
                       [customer_weekly_transactions EXCEPT ![tx.customer_id] = pruned]
                  /\ UNCHANGED <<customer_daily_totals, customer_daily_counts,
                                 prime_id_daily_totals, prime_id_daily_counts,
                                 customer_transaction_counts, transaction_id_counts,
                                 ledger>>
          /\ result' = [id |-> tx.id, customer_id |-> tx.customer_id,
                        accepted |-> accepted,
                        original_amount |-> tx.load_amount,
                        effective_amount |-> effective_amount,
                        is_monday |-> is_monday(transaction_date),
                        time |-> tx.time, hour |-> tx.hour,
                        rules_evaluated |-> rule_results, error |-> "None"]

(* FundProcessor.process_transaction; process_file calls it for each transaction
   of the batch after sorting the batch by timestamp (sorted_feed) *)
process_transaction(tx) ==
    /\ calls < MaxTx
    /\ (sorted_feed /\ ParsesTime(tx.time)) => tx.time >= last_time
    /\ calls' = calls + 1
    /\ last_time' = IF ParsesTime(tx.time) THEN tx.time ELSE last_time
    /\ UNCHANGED <<sorted_feed, pure_vars, file_vars, thread_vars>>
    /\ (ProcessError(tx) \/ ProcessRules(tx))

Next == \E tx \in Transactions : process_transaction(tx)

Spec == Init /\ [][Next]_vars

(* ---- the amount of one transaction: process_transaction, lines 160-162 ---- *)

(* whole units and hundredths of the amounts submitted *)
AmountUnits == {0, 4, 4999, 49999999, 50000000, 99999999, 100000000}
AmountCents == {0, 1, 50, 99}
AmountValues == {Dec(u, c) : u \in AmountUnits, c \in AmountCents}

(* strings no amount is read from, and "US$D5", which cleans to "5" *)
OddAmountStrings ==
    {<<"-", "1", ".", "0", "0">>, <<"$">>, <<".", "5">>, <<"1", "e", "3">>,
     <<"1", ".", "2", ".", "3">>, <<"U", "S", "$", "D", "5">>}

(* "$4999.50", "4999.50", "USD4999.50", "USD$4999.50", "$4999.509", ... *)
AmountStrings ==
    {<<"$">> \o FormatAmount(a) : a \in AmountValues}
      \cup {FormatAmount(a) : a \in AmountValues}
      \cup {<<"U", "S", "D">> \o FormatAmount(a) : a \in AmountValues}
      \cup {<<"U", "S", "D", "$">> \o FormatAmount(a) : a \in AmountValues}
      \cup {<<"$">> \o FormatAmount(a) \o <<d>> : a \in AmountValues, d \in {"4", "9"}}
      \cup OddAmountStrings

(* 2023-01-03, a Tuesday, and 2023-01-09, a Monday *)
AmountDates == {2, 8}

InitAmount ==
    /\ InitProcessor
    /\ sorted_feed = TRUE
    /\ arg \in [kind : {"amount"}, load_amount : AmountStrings, time : AmountDates]
    /\ ret = [stage |-> "none"]
    /\ NoFile
    /\ NoThreads

(* original_amount = AmountParser.parse(transaction.load_amount) *)
ParseAmount ==
    /\ arg.kind = "amount"
    /\ ret.stage = "none"
    /\ ret' = [stage |-> "parsed", original_amount |-> parse(arg.load_amount)]
    /\ UNCHANGED <<rule_state, result, ledger, calls, last_time, sorted_feed,
                   arg, file_vars, thread_vars>>

(* effective_amount, is_monday = MondayMultiplier.apply(original_amount, ...) *)
ApplyMultiplier ==
    /\ ret.stage = "parsed"
    /\ ret.original_amount.ok
    /\ LET out == apply(arg.time, ret.original_amount.value)
       IN ret' = [stage |-> "effective",
                  original_amount |-> ret.original_amount.value,
                  effective_amount |-> out.effective,
                  is_monday |-> out.is_monday]
    /\ UNCHANGED <<rule_state, result, ledger, calls, last_time, sorted_feed,
                   arg, file_vars, thread_vars>>

(* mutant: the marker is looked for anywhere in the string *)
startswith_Anywhere(s, prefix) ==
    \E i \in 1..Len(s) : SubSeq(s, i, i + Len(prefix) - 1) = prefix

(* str.startswith *)
startswith(s, prefix) ==
    Len(s) >= Len(prefix) /\ SubSeq(s, 1, Len(prefix)) = prefix

(* the amount formatted and the ProcessingResult returned *)
FormatResult ==
    /\ ret.stage = "effective"
    /\ ret' = [stage |-> "result", error |-> "None",
               original_amount |-> arg.load_amount,
               effective |-> ret.effective_amount,
               effective_amount |->
                  IF startswith(arg.load_amount, <<"$">>)
                  THEN <<"$">> \o FormatAmount(ret.effective_amount)
                  ELSE FormatAmount(ret.effective_amount),
               is_monday |-> ret.is_monday]
    /\ UNCHANGED <<rule_state, result, ledger, calls, last_time, sorted_feed,
                   arg, file_vars, thread_vars>>

(* AmountParser.parse has raised: the except branch returns the result *)
ErrorResult ==
    /\ ret.stage = "parsed"
    /\ ~ret.original_amount.ok
    /\ ret' = [stage |-> "result", error |-> ret.original_amount.error,
               original_amount |-> arg.load_amount,
               effective_amount |-> arg.load_amount,
               is_monday |-> FALSE]
    /\ UNCHANGED <<rule_state, result, ledger, calls, last_time, sorted_feed,
                   arg, file_vars, thread_vars>>

NextAmount == ParseAmount \/ ApplyMultiplier \/ FormatResult \/ ErrorResult

SpecAmount == InitAmount /\ [][NextAmount]_vars

(* ---- PrimeNumberChecker.is_prime of one string ---- *)

(* str(k) *)
IntString(k) == IF k < 0 THEN <<"-">> \o NatChars(0 - k) ELSE NatChars(k)

(* " 7 ", "+7", "7_1", "-0": integer literals other than str(k) *)
LenientIntStrings ==
    {<<" ", "7", " ">>, <<"+", "7">>, <<"7", "_", "1">>, <<"-", "0">>}

(* "", "abc", "2.0", "1e1", "-", "_7", "7__1", "7 1": no integer literals *)
OtherStrings ==
    {<<>>, <<"a", "b", "c">>, <<"2", ".", "0">>, <<"1", "e", "1">>, <<"-">>,
     <<"_", "7">>, <<"7", "_", "_", "1">>, <<"7", " ", "1">>}

PrimeArgs ==
    {[kind |-> "decimal", number |-> k, n |-> IntString(k)] : k \in -5..MaxPrimeArg}
      \cup [kind : {"lenient"}, number : {0}, n : LenientIntStrings]
      \cup [kind : {"other"}, number : {0}, n : OtherStrings]

InitPrime ==
    /\ InitProcessor
    /\ sorted_feed = TRUE
    /\ arg \in PrimeArgs
    /\ ret = [stage |-> "none"]
    /\ NoFile
    /\ NoThreads

(* a call of PrimeNumberChecker.is_prime(n) *)
IsPrimeCall ==
    /\ arg.kind \in {"decimal", "lenient", "other"}
    /\ ret.stage = "none"
    /\ ret' = [stage |-> "returned", value |-> is_prime_of_string(arg.n)]
    /\ UNCHANGED <<rule_state, result, ledger, calls, last_time, sorted_feed,
                   arg, file_vars, thread_vars>>

NextPrime == IsPrimeCall

SpecPrime == InitPrime /\ [][NextPrime]_vars

(* ---- the pruning loop of WeeklyLimitRule.evaluate, one iteration a step ---- *)

(* the weekly logs of at most MaxLog entries, in any order of dates *)
Logs == UNION {[1..n -> Days \X {100}] : n \in 0..MaxLog}

InitPrune ==
    /\ InitProcessor
    /\ sorted_feed = TRUE
    /\ arg \in [kind : {"prune"}, transaction_date : Days, transactions : Logs]
    /\ ret = [stage |-> "loop", transactions |-> arg.transactions]
    /\ NoFile
    /\ NoThreads

(* mutant: popleft leaves the entry in the deque *)
popleft_Keeps(transactions) == transactions

(* deque.popleft(), the deque it leaves *)
popleft(transactions) == Tail(transactions)

(* while transactions and transactions[0][0] not in week_dates *)
LoopCondition ==
    /\ ret.transactions # <<>>
    /\ ret.transactions[1][1] \notin get_rolling_week_dates(arg.transaction_date)

(* the loop body: transactions.popleft() *)
LoopBody ==
    /\ arg.kind = "prune"
    /\ ret.stage = "loop"
    /\ LoopCondition
    /\ ret' = [ret EXCEPT !.transactions = popleft(@)]
    /\ UNCHANGED <<rule_state, result, ledger, calls, last_time, sorted_feed,
                   arg, file_vars, thread_vars>>

(* the loop condition is false: evaluate goes on to the sum *)
LoopExit ==
    /\ arg.kind = "prune"
    /\ ret.stage = "loop"
    /\ ~LoopCondition
    /\ ret' = [ret EXCEPT !.stage = "done"]
    /\ UNCHANGED <<rule_state, result, ledger, calls, last_time, sorted_feed,
                   arg, file_vars, thread_vars>>

NextPrune == LoopBody \/ LoopExit

(* the thread that runs the loop keeps running *)
SpecPrune == InitPrune /\ [][NextPrune]_vars /\ WF_vars(NextPrune)

(* ------------------------------------------------------------------------ *)
(* SpecAnomaly: one AnomalyRule object and its two methods, called in any    *)
(* order, with a customer id and transaction ids on both sides of the        *)
(* minimum lengths and enough recordings to pass the threshold               *)
(* ------------------------------------------------------------------------ *)
MaxRecords == 12
AnomalyCustomers == {"9", "999"}
AnomalyIds == {3, 100}

(* AnomalyRule.__init__: both defaultdict(int) are empty *)
InitAnomaly ==
    /\ customer_daily_totals = [c \in Customers |-> [d \in Days |-> 0]]
    /\ customer_daily_counts = [c \in Customers |-> [d \in Days |-> 0]]
    /\ customer_weekly_transactions = [c \in Customers |-> <<>>]
    /\ prime_id_daily_totals = [c \in Customers |-> [d \in Days |-> 0]]
    /\ prime_id_daily_counts = [c \in Customers |-> [d \in Days |-> 0]]
    /\ customer_transaction_counts = [c \in AnomalyCustomers |-> 0]
    /\ transaction_id_counts = [i \in AnomalyIds |-> 0]
    /\ result = NoResult
    /\ ledger = <<>>
    /\ calls = 0
    /\ last_time = 0
    /\ sorted_feed = FALSE
    /\ arg = [kind |-> "anomaly"]
    /\ ret = [stage |-> "none"]
    /\ NoFile
    /\ NoThreads

(* anomaly_rule.evaluate(customer_id, transaction_id): the result is returned,
   no attribute is written *)
AnomalyRule_evaluate(customer_id, transaction_id) ==
    /\ arg.kind = "anomaly"
    /\ ret' = [stage |-> "evaluated", customer_id |-> customer_id,
               transaction_id |-> transaction_id,
               result |-> AnomalyEvaluate(customer_id, transaction_id)]
    /\ UNCHANGED <<rule_state, result, ledger, calls, last_time, sorted_feed,
                   arg, file_vars, thread_vars>>

(* anomaly_rule.record_transaction(customer_id, transaction_id) *)
AnomalyRule_record_transaction(customer_id, transaction_id) ==
    /\ arg.kind = "anomaly"
    /\ calls < MaxRecords
    /\ customer_transaction_counts' =
         [customer_transaction_counts EXCEPT ![customer_id] = @ + 1]
    /\ transaction_id_counts' =
         [transaction_id_counts EXCEPT ![transaction_id] = @ + 1]
    /\ calls' = calls + 1
    /\ UNCHANGED <<customer_daily_totals, customer_daily_counts,
                   customer_weekly_transactions, prime_id_daily_totals,
                   prime_id_daily_counts, result, ledger, last_time,
                   sorted_feed, pure_vars, file_vars, thread_vars>>

NextAnomaly ==
    \/ \E c \in AnomalyCustomers, i \in AnomalyIds : AnomalyRule_evaluate(c, i)
    \/ \E c \in AnomalyCustomers, i \in AnomalyIds :
          AnomalyRule_record_transaction(c, i)

SpecAnomaly == InitAnomaly /\ [][NextAnomaly]_vars

(* ------------------------------------------------------------------------ *)
(* SpecFeed: process_transaction called directly, one call at a time, the    *)
(* caller feeding the transactions either in the order of their timestamps   *)
(* (sorted_feed) or in any order                                             *)
(* ------------------------------------------------------------------------ *)
FeedTransactions ==
    [id : {3}, customer_id : Customers, load_amount : {999900},
     time : Days, hour : Hours]
    \cup [id : {100}, customer_id : Customers, load_amount : {500000},
          time : Days, hour : Hours]
    \cup [id : {100}, customer_id : Customers, load_amount : {100},
          time : {2}, hour : Hours]
    \cup [id : {100}, customer_id : Customers, load_amount : BadAmounts,
          time : {3}, hour : Hours]

InitFeed ==
    /\ InitProcessor
    /\ sorted_feed \in BOOLEAN
    /\ NoPureCall
    /\ NoFile
    /\ NoThreads

NextFeed == \E tx \in FeedTransactions : process_transaction(tx)

SpecFeed == InitFeed /\ [][NextFeed]_vars

(* ------------------------------------------------------------------------ *)
(* SpecCustomers: process_transaction called directly, one call at a time,   *)
(* with the transactions of two customers interleaved in any order           *)
(* ------------------------------------------------------------------------ *)
TwoCustomers == {"528", "999"}
CustomerDays == {2, 3}
CustomerTransactions ==
    [id : {3}, customer_id : TwoCustomers, load_amount : {999900},
     time : CustomerDays, hour : Hours]
    \cup [id : {100}, customer_id : TwoCustomers, load_amount : {500000},
          time : CustomerDays, hour : Hours]
    \cup [id : {100}, customer_id : {"528"}, load_amount : BadAmounts,
          time : {3}, hour : Hours]

(* FundProcessor.__init__: a fresh RuleEngine, every defaultdict empty *)
InitCustomers ==
    /\ customer_daily_totals = [c \in TwoCustomers |-> [d \in Days |-> 0]]
    /\ customer_daily_counts = [c \in TwoCustomers |-> [d \in Days |-> 0]]
    /\ customer_weekly_transactions = [c \in TwoCustomers |-> <<>>]
    /\ prime_id_daily_totals = [c \in TwoCustomers |-> [d \in Days |-> 0]]
    /\ prime_id_daily_counts = [c \in TwoCustomers |-> [d \in Days |-> 0]]
    /\ customer_transaction_counts = [c \in TwoCustomers |-> 0]
    /\ transaction_id_counts = [i \in Ids |-> 0]
    /\ result = NoResult
    /\ ledger = <<>>
    /\ calls = 0
    /\ last_time = 0
    /\ sorted_feed = FALSE
    /\ NoPureCall
    /\ NoFile
    /\ NoThreads

NextCustomers == \E tx \in CustomerTransactions : process_transaction(tx)

SpecCustomers == InitCustomers /\ [][NextCustomers]_vars

(* ---- process_file ---- *)

(* "2023-01-03T10:00:00Z", "2023-01-03T11:00:00Z", "2023-01-04T10:00:00Z" with
   "$1.00" and "$5000.00"; a line whose time does not parse; a line whose amount
   does not parse *)
FileTransactions ==
    [id : {100}, customer_id : Customers, load_amount : {100, 500000}, time : {2},
     hour : {10, 11}]
      \cup [id : {100}, customer_id : Customers, load_amount : {100, 500000},
            time : {3}, hour : {10}]
      \cup [id : {100}, customer_id : Customers, load_amount : {100}, time : BadTimes,
            hour : {10}]
      \cup [id : {100}, customer_id : Customers, load_amount : BadAmounts, time : {2},
            hour : {10}]

(* the files of at most MaxLines transactions *)
Files == UNION {[1..n -> FileTransactions] : n \in 0..MaxLines}

(* DateUtils.parse_timestamp(t.time), the sort key, in hours *)
parse_timestamp(t) == t.time * 24 + t.hour

(* mutant: a transaction goes before the transactions of its own timestamp *)
InsertByTime_BeforeEqual(sorted, t) ==
    LET before == {k \in 1..Len(sorted) :
                     parse_timestamp(sorted[k]) < parse_timestamp(t)}
    IN SubSeq(sorted, 1, Cardinality(before)) \o <<t>>
         \o SubSeq(sorted, Cardinality(before) + 1, Len(sorted))

(* the place of t in a sorted list: behind every transaction that is not later *)
InsertByTime(sorted, t) ==
    LET before == {k \in 1..Len(sorted) :
                     parse_timestamp(sorted[k]) <= parse_timestamp(t)}
    IN SubSeq(sorted, 1, Cardinality(before)) \o <<t>>
         \o SubSeq(sorted, Cardinality(before) + 1, Len(sorted))

(* list.sort(key=...): ascending and stable *)
RECURSIVE SortByTime(_)
SortByTime(s) ==
    IF s = <<>> THEN <<>>
    ELSE InsertByTime(SortByTime(SubSeq(s, 1, Len(s) - 1)), s[Len(s)])

InitFile ==
    /\ InitProcessor
    /\ sorted_feed = FALSE
    /\ NoPureCall
    /\ lines \in Files
    /\ queue = <<>>
    /\ results = <<>>
    /\ file_status = "read"
    /\ NoThreads

(* _read_and_sort_transactions, the sort: the key is computed for every
   transaction, outside any try block; a ValueError of parse_timestamp leaves
   _read_and_sort_transactions and process_file *)
SortTransactions ==
    /\ file_status = "read"
    /\ IF \E i \in 1..Len(lines) : ~ParsesTime(lines[i].time)
       THEN file_status' = "raised" /\ UNCHANGED queue
       ELSE file_status' = "sorted" /\ queue' = SortByTime(lines)
    /\ UNCHANGED <<rule_state, result, ledger, calls, last_time, sorted_feed,
                   pure_vars, thread_vars, lines, results>>

(* process_file, the loop body: result = self.process_transaction(transaction);
   results.append(result) *)
ProcessNext ==
    /\ file_status = "sorted"
    /\ queue # <<>>
    /\ ProcessError(Head(queue)) \/ ProcessRules(Head(queue))
    /\ calls' = calls + 1
    /\ last_time' = IF ParsesTime(Head(queue).time) THEN Head(queue).time
                    ELSE last_time
    /\ queue' = Tail(queue)
    /\ results' = Append(results, result')
    /\ UNCHANGED <<sorted_feed, pure_vars, thread_vars, lines, file_status>>

(* process_file: the loop is over, return results *)
ReturnResults ==
    /\ file_status = "sorted"
    /\ queue = <<>>
    /\ file_status' = "done"
    /\ UNCHANGED <<rule_state, result, ledger, calls, last_time, sorted_feed,
                   pure_vars, thread_vars, lines, queue, results>>

NextFile == SortTransactions \/ ProcessNext \/ ReturnResults

SpecFile == InitFile /\ [][NextFile]_vars

(* ---- two threads calling process_transaction of one FundProcessor ---- *)

Threads == {"t1", "t2"}

(* "$1.00" and "$5000.00" on 2023-01-03 and 2023-01-11, ids "3" and "100" *)
ThreadTransactions ==
    [id : {3, 100}, customer_id : Customers, load_amount : {100, 500000},
     time : {2, 10}, hour : Hours]

Idle == [stage |-> "idle"]

(* the threads between evaluate_all_rules and the end of their call *)
Evaluating == {t \in Threads : pending[t].stage = "evaluated"}

InitThreads ==
    /\ InitProcessor
    /\ sorted_feed = FALSE
    /\ NoPureCall
    /\ NoFile
    /\ pending = [t \in Threads |-> Idle]
    /\ serialized \in BOOLEAN

(* process_transaction of thread t up to the decision, lines 158-177: the
   rules are evaluated on the state as it is now; WeeklyLimitRule.evaluate
   prunes the log.  RuleEngine takes no lock: unless the host serializes the
   calls, a thread starts while another is between evaluation and recording *)
EvaluateRules(t, tx) ==
    /\ pending[t] = Idle
    /\ serialized => Evaluating = {}
    /\ calls + Cardinality(Evaluating) < MaxTx
    /\ LET effective_amount == MondayApply(tx.time, tx.load_amount)
           rule_results == evaluate_all_rules(tx.customer_id, tx.id, tx.time,
                                              effective_amount)
       IN /\ pending' = [pending EXCEPT ![t] =
                           [stage |-> "evaluated", tx |-> tx,
                            effective_amount |-> effective_amount,
                            rules_evaluated |-> rule_results,
                            accepted |-> Accepted(rule_results)]]
          /\ customer_weekly_transactions' =
               [customer_weekly_transactions EXCEPT
                  ![tx.customer_id] = WeeklyPruned(tx.customer_id, tx.time)]
    /\ UNCHANGED <<customer_daily_totals, customer_daily_counts,
                   prime_id_daily_totals, prime_id_daily_counts,
                   customer_transaction_counts, transaction_id_counts,
                   result, ledger, calls, last_time, sorted_feed, pure_vars,
                   file_vars, serialized>>

(* process_transaction of thread t from the decision on, lines 180-213:
   record_accepted_transaction adds to the totals as they are now *)
RecordAndReturn(t) ==
    /\ pending[t].stage = "evaluated"
    /\ LET p == pending[t]
       IN /\ IF p.accepted
             THEN /\ record_accepted_transaction(
                        p.tx.customer_id, p.tx.id, p.tx.time, p.effective_amount,
                        customer_weekly_transactions[p.tx.customer_id])
                  /\ ledger' = Append(ledger,
                                 [id |-> p.tx.id, customer_id |-> p.tx.customer_id,
                                  date |-> p.tx.time, amount |-> p.effective_amount])
             ELSE UNCHANGED <<rule_state, ledger>>
          /\ result' = [id |-> p.tx.id, customer_id |-> p.tx.customer_id,
                        accepted |-> p.accepted,
                        original_amount |-> p.tx.load_amount,
                        effective_amount |-> p.effective_amount,
                        is_monday |-> is_monday(p.tx.time),
                        time |-> p.tx.time, hour |-> p.tx.hour,
                        rules_evaluated |-> p.rules_evaluated, error |-> "None"]
          /\ last_time' = p.tx.time
    /\ pending' = [pending EXCEPT ![t] = Idle]
    /\ calls' = calls + 1
    /\ UNCHANGED <<sorted_feed, pure_vars, file_vars, serialized>>

NextThreads ==
    \/ \E t \in Threads, tx \in ThreadTransactions : EvaluateRules(t, tx)
    \/ \E t \in Threads : RecordAndReturn(t)

SpecThreads == InitThreads /\ [][NextThreads]_vars

(* ======================= properties ======================= *)

(* the last call evaluated the rules (its amount and time parsed) *)
Evaluated == calls > 0 /\ result.error = "None"

(* the accepted transactions before the last call *)
PriorLedger ==
    IF Evaluated /\ result.accepted THEN SubSeq(ledger, 1, Len(ledger) - 1) ELSE ledger

(* reference primality: no divisor between 2 and n - 1 *)
Prime(n) == n > 1 /\ \A k \in 2..(n - 1) : n % k # 0

RECURSIVE SumAmounts(_, _)
SumAmounts(s, I) ==
    IF I = {} THEN 0
    ELSE LET i == CHOOSE j \in I : TRUE IN s[i].amount + SumAmounts(s, I \ {i})

(* entries of ledger s of customer c dated within lo..hi *)
Entries(s, c, lo, hi) ==
    {i \in 1..Len(s) : s[i].customer_id = c /\ lo <= s[i].date /\ s[i].date <= hi}
PrimeEntries(s, c, lo, hi) == {i \in Entries(s, c, lo, hi) : Prime(s[i].id)}
NonPrimeEntries(s, c, lo, hi) == {i \in Entries(s, c, lo, hi) : ~Prime(s[i].id)}

(* t is s with entries removed from the front *)
IsSuffix(t, s) ==
    Len(t) <= Len(s) /\ t = SubSeq(s, Len(s) - Len(t) + 1, Len(s))

(* the four business rules of the last call passed *)
FourPassed ==
    /\ result.rules_evaluated["daily_limit"].passed
    /\ result.rules_evaluated["daily_count"].passed
    /\ result.rules_evaluated["weekly_limit"].passed
    /\ result.rules_evaluated["prime_id"].passed

(* C1: a call that returns accepted = false leaves the daily totals, the daily
   counts and the prime-id totals and counts as they were and appends nothing to
   a weekly log (entries may only leave its front); the totals, counts and logs
   grow only in a call whose four business rules were evaluated and passed. *)
C1_RejectedLeavesState ==
    [][ /\ (~result'.accepted =>
              /\ customer_daily_totals' = customer_daily_totals
              /\ customer_daily_counts' = customer_daily_counts
              /\ prime_id_daily_totals' = prime_id_daily_totals
              /\ prime_id_daily_counts' = prime_id_daily_counts
              /\ \A c \in Customers :
                    IsSuffix(customer_weekly_transactions'[c],
                             customer_weekly_transactions[c]))
        /\ ((\/ customer_daily_totals' # customer_daily_totals
             \/ customer_daily_counts' # customer_daily_counts
             \/ prime_id_daily_totals' # prime_id_daily_totals
             \/ prime_id_daily_counts' # prime_id_daily_counts
             \/ \E c \in Customers :
                   ~IsSuffix(customer_weekly_transactions'[c],
                             customer_weekly_transactions[c]))
            => /\ result'.error = "None"
               /\ \A r \in BusinessRules : result'.rules_evaluated[r].passed) ]_vars

(* C1 witness: a call was rejected by a business rule after an earlier
   transaction of the same customer and date had been accepted *)
C1_Witness ==
    /\ Evaluated /\ ~result.accepted
    /\ Entries(ledger, result.customer_id, result.time, result.time) # {}

(* C2: for a transaction that parses, accepted is the conjunction of the
   daily_limit, daily_count, weekly_limit and prime_id results; the anomaly
   result has no part in it. *)
C2_AcceptedIsFourRules ==
    Evaluated => (result.accepted <=> FourPassed)

(* C2 witness: a transaction whose anomaly rule failed was accepted *)
C2_Witness ==
    /\ Evaluated /\ result.accepted
    /\ ~result.rules_evaluated["anomaly"].passed
    /\ result.rules_evaluated["anomaly"].reason \in
         {"TRANSACTION_ID_TOO_SHORT", "DUPLICATE_TRANSACTION_ID"}

(* the accepted transactions of the customer and date of the last call, before it *)
PriorSameDay == Entries(PriorLedger, result.customer_id, result.time, result.time)
PriorDayTotal == SumAmounts(PriorLedger, PriorSameDay)
(* the accepted transactions of its customer within the seven days ending at its date *)
PriorInWindow ==
    Entries(PriorLedger, result.customer_id, result.time - 6, result.time)
PriorWindowTotal == SumAmounts(PriorLedger, PriorInWindow)

(* the last call had a non-prime id and every transaction accepted before it
   was a non-prime-id transaction of the same date *)
OneDayNonPrime ==
    /\ Evaluated /\ ~Prime(result.id)
    /\ \A i \in 1..Len(PriorLedger) :
          ~Prime(PriorLedger[i].id) /\ PriorLedger[i].date = result.time

(* C3 as stated: for one customer and one date, with non-prime ids in timestamp
   order, every transaction that keeps the running total of accepted amounts
   <= daily_limit is accepted. *)
C3_Original ==
    (OneDayNonPrime /\ PriorDayTotal + result.effective_amount <= daily_limit)
        => result.accepted

(* C3 as amended: for one customer and one date, with non-prime ids in timestamp
   order, a transaction that keeps the running total of accepted amounts
   <= daily_limit passes the daily_limit rule and is accepted exactly when its
   daily_count and weekly_limit rules pass too; one that would bring the total
   strictly above daily_limit is rejected with DAILY_LIMIT_EXCEEDED; the daily
   total is the sum of the accepted amounts only. *)
C3_DailyLimit ==
    (Evaluated /\ ~Prime(result.id)
       /\ PrimeEntries(PriorLedger, result.customer_id, result.time, result.time) = {})
    => LET dl == result.rules_evaluated["daily_limit"]
           new_total == PriorDayTotal + result.effective_amount
       IN /\ (new_total <= daily_limit =>
                /\ dl.passed
                /\ (result.accepted <=>
                      /\ result.rules_evaluated["daily_count"].passed
                      /\ result.rules_evaluated["weekly_limit"].passed))
          /\ (new_total > daily_limit =>
                /\ ~result.accepted
                /\ ~dl.passed /\ dl.reason = "DAILY_LIMIT_EXCEEDED")
          /\ customer_daily_totals[result.customer_id][result.time] =
               SumAmounts(ledger, Entries(ledger, result.customer_id,
                                          result.time, result.time))

(* C3 witness: a transaction that fits under the limit on its own is rejected
   with DAILY_LIMIT_EXCEEDED because of the amounts accepted before it *)
C3_Witness ==
    /\ OneDayNonPrime /\ ~result.accepted
    /\ result.rules_evaluated["daily_limit"].reason = "DAILY_LIMIT_EXCEEDED"
    /\ result.effective_amount <= daily_limit
    /\ PriorDayTotal > 0

(* C4: for every customer and date at most daily_load_count transactions are
   accepted; a non-prime-id transaction passes daily_count exactly when fewer
   than daily_load_count transactions of its customer and date have been
   accepted, is accepted then if its daily_limit and weekly_limit rules pass,
   and is otherwise rejected with DAILY_COUNT_EXCEEDED; the count is the number
   of accepted transactions, so rejected ones do not increase it. *)
C4_DailyCount ==
    /\ \A c \in Customers, d \in Days :
          /\ Cardinality(Entries(ledger, c, d, d)) <= daily_load_count
          /\ customer_daily_counts[c][d] = Cardinality(Entries(ledger, c, d, d))
    /\ (Evaluated /\ ~Prime(result.id)) =>
          LET dc == result.rules_evaluated["daily_count"]
              n == Cardinality(PriorSameDay)
          IN /\ dc.passed <=> n < daily_load_count
             /\ ~dc.passed => (dc.reason = "DAILY_COUNT_EXCEEDED" /\ ~result.accepted)
             /\ (/\ n < daily_load_count
                 /\ result.rules_evaluated["daily_limit"].passed
                 /\ result.rules_evaluated["weekly_limit"].passed) => result.accepted

(* C4 witness: the transaction after daily_load_count accepted ones is rejected
   by the count alone *)
C4_Witness ==
    /\ Evaluated /\ ~Prime(result.id) /\ ~result.accepted
    /\ Cardinality(PriorSameDay) = daily_load_count
    /\ result.rules_evaluated["daily_count"].reason = "DAILY_COUNT_EXCEEDED"
    /\ result.rules_evaluated["daily_limit"].passed
    /\ result.rules_evaluated["weekly_limit"].passed

(* C5: with transactions fed in non-decreasing timestamp order, the rolling
   total WeeklyLimitRule.evaluate compares for a transaction dated D is the sum
   of the effective amounts of the customer's previously accepted transactions
   dated within [D-6, D]; the rule fails, with WEEKLY_LIMIT_EXCEEDED, exactly
   when that sum plus the effective amount is strictly greater than
   weekly_limit. *)
C5_WeeklyWindow ==
    (Evaluated /\ sorted_feed) =>
        LET wl == result.rules_evaluated["weekly_limit"]
        IN /\ wl.details.rolling_7d_total = PriorWindowTotal
           /\ wl.passed <=> PriorWindowTotal + result.effective_amount <= weekly_limit
           /\ ~wl.passed => wl.reason = "WEEKLY_LIMIT_EXCEEDED"

(* C5 witness: a transaction is accepted that the weekly limit would refuse if
   the transactions accepted seven or more days before it still counted *)
C5_Witness ==
    /\ Evaluated /\ sorted_feed /\ result.accepted
    /\ Entries(PriorLedger, result.customer_id, 0, result.time - 7) # {}
    /\ PriorInWindow # {}
    /\ SumAmounts(PriorLedger, Entries(PriorLedger, result.customer_id, 0, result.time))
         + result.effective_amount > weekly_limit

(* C6: the amount limits are strict: the daily_limit, weekly_limit and prime_id
   amount checks fail exactly when the running total plus the effective amount
   is strictly greater than the limit, so a total of exactly the limit passes. *)
C6_StrictLimits ==
    Evaluated =>
        LET dl == result.rules_evaluated["daily_limit"]
            wl == result.rules_evaluated["weekly_limit"]
            pr == result.rules_evaluated["prime_id"]
            amount == result.effective_amount
        IN /\ ~Prime(result.id) =>
                (dl.passed <=> PriorDayTotal + amount <= daily_limit)
           /\ wl.passed <=> wl.details.rolling_7d_total + amount <= weekly_limit
           /\ (Prime(result.id) /\ pr.reason # "PRIME_ID_DAILY_COUNT_EXCEEDED") =>
                (pr.passed <=>
                   pr.details.prime_id_daily_total + amount <= prime_id_daily_limit)

(* C6 witness: a transaction of exactly daily_limit was accepted, and the last
   transaction is accepted with a prime-id total of exactly
   prime_id_daily_limit and a rolling total of exactly weekly_limit *)
C6_Witness ==
    /\ Evaluated /\ result.accepted /\ Prime(result.id)
    /\ result.effective_amount = prime_id_daily_limit
    /\ PriorWindowTotal + result.effective_amount = weekly_limit
    /\ \E i \in 1..Len(ledger) :
          /\ ~Prime(ledger[i].id) /\ ledger[i].amount = daily_limit
          /\ Cardinality(Entries(ledger, ledger[i].customer_id,
                                 ledger[i].date, ledger[i].date)) = 1

(* C7: for a prime id, daily_limit and daily_count are reported as passed with
   reason PRIME_ID whatever the customer's daily total and count, and prime_id
   is the PrimeIdRule evaluation; for a non-prime id, prime_id is passed with
   reason NOT_PRIME_ID and daily_limit and daily_count are the evaluations of
   their rules. *)
C7_PrimePath ==
    Evaluated =>
        LET dl == result.rules_evaluated["daily_limit"]
            dc == result.rules_evaluated["daily_count"]
            pr == result.rules_evaluated["prime_id"]
            bypass == [passed |-> TRUE, reason |-> "PRIME_ID", details |-> "None"]
        IN IF Prime(result.id)
           THEN /\ dl = bypass /\ dc = bypass
                /\ pr.reason \in {"PRIME_ID_APPROVED", "PRIME_ID_DAILY_COUNT_EXCEEDED",
                                  "PRIME_ID_DAILY_LIMIT_EXCEEDED"}
                /\ pr.passed <=> pr.reason = "PRIME_ID_APPROVED"
           ELSE /\ pr = [passed |-> TRUE, reason |-> "NOT_PRIME_ID", details |-> "None"]
                /\ dl.reason \in {"None", "DAILY_LIMIT_EXCEEDED"}
                /\ dl.passed <=> PriorDayTotal + result.effective_amount <= daily_limit
                /\ dc.reason \in {"None", "DAILY_COUNT_EXCEEDED"}
                /\ dc.passed <=> Cardinality(PriorSameDay) < daily_load_count

(* C7 witness: a prime-id transaction above daily_limit, submitted after
   daily_load_count accepted transactions of the day, passes daily_limit and
   daily_count *)
C7_Witness ==
    /\ Evaluated /\ Prime(result.id)
    /\ result.effective_amount > daily_limit
    /\ Cardinality(PriorSameDay) >= daily_load_count
    /\ result.rules_evaluated["daily_limit"].passed
    /\ result.rules_evaluated["daily_count"].passed

(* the prime-id transactions of the customer and date of the last call accepted
   before it *)
PriorPrimeSameDay ==
    PrimeEntries(PriorLedger, result.customer_id, result.time, result.time)

(* C8 as stated: PrimeIdRule's count and total of a customer and date are those
   of the accepted prime-id transactions alone, so the first prime-id
   transaction of a day, within prime_id_daily_limit and the weekly limit, is
   accepted even after non-prime-id transactions of that day were accepted. *)
C8_PrimeStateOnlyPrimeIds ==
    /\ \A c \in Customers, d \in Days :
          /\ prime_id_daily_counts[c][d] = Cardinality(PrimeEntries(ledger, c, d, d))
          /\ prime_id_daily_totals[c][d] =
               SumAmounts(ledger, PrimeEntries(ledger, c, d, d))
    /\ (/\ Evaluated /\ Prime(result.id)
        /\ PriorPrimeSameDay = {}
        /\ result.effective_amount <= prime_id_daily_limit
        /\ result.rules_evaluated["weekly_limit"].passed) => result.accepted

(* C9: once prime_id_daily_count prime-id transactions of a customer and date
   have been accepted, every further prime-id transaction of that customer and
   date is rejected with PRIME_ID_DAILY_COUNT_EXCEEDED, whatever its id and
   amount. *)
C9_PrimeCount ==
    (/\ Evaluated /\ Prime(result.id)
     /\ Cardinality(PriorPrimeSameDay) >= prime_id_daily_count)
    => /\ ~result.accepted
       /\ ~result.rules_evaluated["prime_id"].passed
       /\ result.rules_evaluated["prime_id"].reason = "PRIME_ID_DAILY_COUNT_EXCEEDED"

(* C9 witness: after an accepted prime-id transaction, a transaction of the same
   day with another prime id and an amount within every limit is rejected *)
C9_Witness ==
    /\ Evaluated /\ Prime(result.id) /\ ~result.accepted
    /\ result.rules_evaluated["prime_id"].reason = "PRIME_ID_DAILY_COUNT_EXCEEDED"
    /\ result.rules_evaluated["weekly_limit"].passed
    /\ PriorSameDay = PriorPrimeSameDay
    /\ \E i \in PriorPrimeSameDay :
          /\ PriorLedger[i].id # result.id
          /\ PriorLedger[i].amount + result.effective_amount <= prime_id_daily_limit

(* C10: the weekly limit applies to prime ids: with transactions fed in
   timestamp order, a prime-id transaction whose effective amount plus the
   in-window total of the customer's accepted amounts is strictly greater than
   weekly_limit fails weekly_limit with WEEKLY_LIMIT_EXCEEDED and is rejected,
   and an accepted prime-id transaction is appended to the customer's weekly
   log with its effective amount. *)
C10_WeeklyAppliesToPrime ==
    (Evaluated /\ sorted_feed /\ Prime(result.id)) =>
        LET wl == result.rules_evaluated["weekly_limit"]
            log == customer_weekly_transactions[result.customer_id]
        IN /\ wl.passed <=> PriorWindowTotal + result.effective_amount <= weekly_limit
           /\ ~wl.passed => (wl.reason = "WEEKLY_LIMIT_EXCEEDED" /\ ~result.accepted)
           /\ result.accepted =>
                (log # <<>> /\ log[Len(log)] = <<result.time, result.effective_amount>>)

(* C10 witness: a prime-id transaction is rejected by the weekly limit alone *)
C10_Witness ==
    /\ Evaluated /\ Prime(result.id) /\ ~result.accepted
    /\ result.rules_evaluated["weekly_limit"].reason = "WEEKLY_LIMIT_EXCEEDED"
    /\ result.rules_evaluated["prime_id"].passed
    /\ result.rules_evaluated["daily_limit"].passed
    /\ result.rules_evaluated["daily_count"].passed

(* ---- C11 ---- *)

(* the exact product of an amount and a whole number *)
ExactTimes(x, m) ==
    Dec(x.units * m + ((x.cents * m) \div 100), (x.cents * m) % 100)

(* C11: the effective amount of every transaction is the original amount times
   monday_multiplier when the transaction date is a Monday and the original
   amount otherwise, and is_monday says which. *)
C11_EffectiveIsProduct ==
    ret.stage = "effective" =>
        /\ ret.is_monday = (arg.time % 7 = 1)
        /\ ret.effective_amount =
             IF arg.time % 7 = 1
             THEN ExactTimes(ret.original_amount, monday_multiplier)
             ELSE ret.original_amount

(* ---- C12 ---- *)

(* C12 as stated: the anomaly rule counts every evaluated transaction, rejected
   ones included, so after any evaluated call the counts of its customer and of
   its transaction id are at least one. *)
C12_CountsEveryEvaluated ==
    Evaluated =>
        /\ customer_transaction_counts[result.customer_id] >= 1
        /\ transaction_id_counts[result.id] >= 1

(* C12, amended: the anomaly rule's counts are the numbers of accepted
   transactions of the customer and with the transaction id; a transaction id
   of sufficient length is reported as DUPLICATE_TRANSACTION_ID exactly when a
   transaction with that id was accepted before, whatever was rejected. *)
C12_CountsAcceptedOnly ==
    /\ \A c \in Customers :
         customer_transaction_counts[c] =
           Cardinality({k \in 1..Len(ledger) : ledger[k].customer_id = c})
    /\ \A i \in Ids :
         transaction_id_counts[i] =
           Cardinality({k \in 1..Len(ledger) : ledger[k].id = i})
    /\ (Evaluated /\ StrLen(result.id) >= min_transaction_id_length) =>
         ((result.rules_evaluated["anomaly"].reason = "DUPLICATE_TRANSACTION_ID")
            <=> \E k \in 1..Len(PriorLedger) : PriorLedger[k].id = result.id)

(* a rejected transaction with a long enough id, not the first call, whose id
   is still uncounted and passes the anomaly rule *)
C12_Witness ==
    /\ Evaluated
    /\ calls >= 2
    /\ ~result.accepted
    /\ StrLen(result.id) >= min_transaction_id_length
    /\ result.rules_evaluated["anomaly"].passed
    /\ transaction_id_counts[result.id] = 0

(* ---- C13 ---- *)

(* the transactions whose load_amount or time does not parse *)
Unparsable ==
    {tx \in Transactions : ~ParsesAmount(tx.load_amount) \/ ~ParsesTime(tx.time)}

(* C13: process_transaction does not raise: a call whose load_amount or time
   does not parse returns a result with accepted false, the error set and no
   rule evaluated, and leaves the state of every rule as it was. *)
C13_ErrorResult ==
    [][\A tx \in Unparsable :
         process_transaction(tx)
         => /\ result'.id = tx.id
            /\ result'.original_amount = tx.load_amount
            /\ result'.time = tx.time
            /\ ~result'.accepted
            /\ result'.error # "None"
            /\ result'.rules_evaluated = <<>>
            /\ rule_state' = rule_state]_vars

(* a call whose time did not parse, made after a transaction was accepted *)
C13_Witness ==
    /\ calls >= 2
    /\ ledger # <<>>
    /\ ~ParsesTime(result.time)
    /\ ParsesAmount(result.original_amount)
    /\ result.error = "Invalid isoformat string"

(* ---- C14 ---- *)

(* the result at place k of results is the result of transaction t *)
ResultOf(k, t) ==
    /\ results[k].id = t.id
    /\ results[k].customer_id = t.customer_id
    /\ results[k].original_amount = t.load_amount
    /\ results[k].time = t.time
    /\ results[k].hour = t.hour

(* C14: process_file throws nothing for a transaction whose time ends in Z but
   does not parse: it returns, with a failed result for that transaction and a
   result for every other transaction. *)
C14_BadTimeSurfaced ==
    /\ file_status # "raised"
    /\ file_status = "done" =>
         \A i \in 1..Len(lines) :
            \E k \in 1..Len(results) :
               /\ ResultOf(k, lines[i])
               /\ ~ParsesTime(lines[i].time) =>
                    (~results[k].accepted /\ results[k].error # "None")

(* ---- C15 ---- *)

(* the amounts accepted from customer c on date d under non-prime ids *)
AcceptedNonPrimeSum(c, d) == SumAmounts(ledger, NonPrimeEntries(ledger, c, d, d))

(* C15: while every process_transaction call runs atomically, the amounts
   accepted from one customer on one date under non-prime ids never sum to more
   than daily_limit.  (The witness is the same sum above daily_limit, reached
   when two calls interleave between evaluation and recording.) *)
C15_AtomicKeepsDailyLimit ==
    serialized =>
        \A c \in Customers, d \in Days : AcceptedNonPrimeSum(c, d) <= daily_limit

(* both threads' transactions passed the daily limit and both were recorded *)
C15_Witness ==
    /\ ~serialized
    /\ \E c \in Customers, d \in Days :
          /\ AcceptedNonPrimeSum(c, d) > daily_limit
          /\ customer_daily_totals[c][d] > daily_limit

(* ---- C17 ---- *)

(* C17: the results process_file returns are one per transaction read, in the
   order of evaluation, which is ascending in the parsed timestamp whatever the
   order of the file; transactions of equal timestamp keep their file order. *)
C17_SortedResults ==
    file_status = "done" =>
        /\ Len(results) = Len(lines)
        /\ \E f \in [1..Len(lines) -> 1..Len(lines)] :
              /\ \A j, k \in 1..Len(lines) : j # k => f[j] # f[k]
              /\ \A k \in 1..Len(lines) : ResultOf(k, lines[f[k]])
              /\ \A j, k \in 1..Len(lines) :
                    j < k =>
                       \/ parse_timestamp(lines[f[j]]) < parse_timestamp(lines[f[k]])
                       \/ /\ parse_timestamp(lines[f[j]]) = parse_timestamp(lines[f[k]])
                          /\ f[j] < f[k]

(* a file returned whose lines were out of order and held two different
   transactions of one timestamp *)
C17_Witness ==
    /\ file_status = "done"
    /\ Len(results) >= 3
    /\ \E i, j \in 1..Len(lines) :
          i < j /\ parse_timestamp(lines[i]) > parse_timestamp(lines[j])
    /\ \E i, j \in 1..Len(lines) :
          /\ i < j
          /\ parse_timestamp(lines[i]) = parse_timestamp(lines[j])
          /\ lines[i].load_amount # lines[j].load_amount

(* ---- C18 ---- *)

(* C18: the first transaction of a fresh processor, if well-formed, is accepted
   whenever its effective amount is at most daily_limit and weekly_limit (id not
   prime) or at most prime_id_daily_limit and weekly_limit (id prime); on a day
   other than Monday its effective amount is its original amount and is_monday
   is false. *)
C18_FreshSingle ==
    (calls = 1 /\ Evaluated) =>
        /\ (/\ ~Prime(result.id)
            /\ result.effective_amount <= daily_limit
            /\ result.effective_amount <= weekly_limit) => result.accepted
        /\ (/\ Prime(result.id)
            /\ result.effective_amount <= prime_id_daily_limit
            /\ result.effective_amount <= weekly_limit) => result.accepted
        /\ result.time % 7 # 1 =>
             (result.effective_amount = result.original_amount /\ ~result.is_monday)

(* a first transaction accepted on a Tuesday with exactly daily_limit *)
C18_Witness ==
    /\ calls = 1
    /\ Evaluated
    /\ result.accepted
    /\ ~Prime(result.id)
    /\ result.time % 7 = 2
    /\ result.effective_amount = daily_limit
    /\ result.original_amount = daily_limit

(* ---- C19 ---- *)

(* C19: for the decimal string of every integer from -5 to MaxPrimeArg is_prime
   returns what the reference test by trial division returns (nothing below 2
   is prime), and for a string that is no integer it returns false. *)
C19_MatchesReference ==
    ret.stage = "returned" =>
        /\ arg.kind = "decimal" => (ret.value = Prime(arg.number))
        /\ arg.kind = "other" => (ret.value = FALSE)

(* is_prime has answered for 9409, the square of the prime 97 *)
C19_Witness ==
    /\ ret.stage = "returned"
    /\ arg.kind = "decimal"
    /\ arg.number = 9409
    /\ arg.n = <<"9", "4", "0", "9">>
    /\ ~ret.value

(* ---- C20 ---- *)

(* C20: for every non-negative amount a of two fractional digits, parse of "$"
   followed by a formatted to two decimals returns a, and parse of that string
   with a further fractional digit returns a as well: the third digit is cut
   off, not rounded. *)
C20_RoundTrip ==
    ret.stage = "parsed" =>
        \A a \in AmountValues :
           /\ arg.load_amount = <<"$">> \o FormatAmount(a) =>
                (ret.original_amount.ok /\ ret.original_amount.value = a)
           /\ \A d \in {"4", "9"} :
                 arg.load_amount = <<"$">> \o FormatAmount(a) \o <<d>> =>
                   (ret.original_amount.ok /\ ret.original_amount.value = a)

(* ---- C21 ---- *)

(* C21: the front-pruning loop of WeeklyLimitRule.evaluate terminates for every
   content of the log and every transaction date, and leaves the log that
   evaluate computes its total from. *)
C21_LoopTerminates ==
    <>(/\ ret.stage = "done"
       /\ ret.transactions =
            PruneFront(arg.transactions, get_rolling_week_dates(arg.transaction_date)))

(* the loop has ended after removing two of three entries *)
C21_Witness ==
    /\ ret.stage = "done"
    /\ Len(arg.transactions) = 3
    /\ Len(ret.transactions) = 1

(* ---- C22 ---- *)

(* thread t evaluates the rules in this step *)
EvaluateStep(t) == pending[t].stage = "idle" /\ pending'[t].stage = "evaluated"

(* C22 as stated: evaluating the rules leaves the totals, the counts and the
   weekly log of every rule exactly as they were. *)
C22_EvaluateReadOnly ==
    [][\A t \in Threads : EvaluateStep(t) => rule_state' = rule_state]_vars

(* C22, amended: evaluating the rules for a transaction of customer c dated D
   leaves the daily, prime-id and anomaly totals and counts as they were, and
   removes from the front of the weekly log of c the entries before the first
   one dated within [D-6, D], nothing else; the logs of other customers stay. *)
C22_EvaluateOnlyPrunes ==
    [][\A t \in Threads :
         EvaluateStep(t) =>
            LET c == pending'[t].tx.customer_id
                D == pending'[t].tx.time
                old == customer_weekly_transactions[c]
                new == customer_weekly_transactions'[c]
            IN /\ customer_daily_totals' = customer_daily_totals
               /\ customer_daily_counts' = customer_daily_counts
               /\ prime_id_daily_totals' = prime_id_daily_totals
               /\ prime_id_daily_counts' = prime_id_daily_counts
               /\ customer_transaction_counts' = customer_transaction_counts
               /\ transaction_id_counts' = transaction_id_counts
               /\ \A o \in Customers \ {c} :
                     customer_weekly_transactions'[o] = customer_weekly_transactions[o]
               /\ IsSuffix(new, old)
               /\ \A i \in 1..(Len(old) - Len(new)) :
                     ~(D - 6 <= old[i][1] /\ old[i][1] <= D)
               /\ new # <<>> => (D - 6 <= new[1][1] /\ new[1][1] <= D)]_vars

(* calls run one at a time; a transaction was evaluated and refused, and the
   entry of the transaction accepted last, dated outside its window, has left
   the weekly log *)
C22_Witness ==
    \E t \in Threads :
       /\ serialized
       /\ pending[t].stage = "evaluated"
       /\ ~pending[t].accepted
       /\ ledger # <<>>
       /\ ledger[Len(ledger)].customer_id = pending[t].tx.customer_id
       /\ ledger[Len(ledger)].date > pending[t].tx.time
       /\ customer_weekly_transactions[pending[t].tx.customer_id] = <<>>

(* ---- C23 ---- *)

(* C23: every accepted transaction, prime id or not, is recorded by the daily
   limit, daily count, weekly limit and prime-id rules: for every customer and
   date the daily total and the prime-id total are the sum of the effective
   amounts of all accepted transactions, the daily count and the prime-id count
   are their number, and the accepted transaction is the last entry of the
   weekly log; so a transaction of a non-prime id is measured against a daily
   total and count that include the accepted prime-id transactions. *)
C23_RecordsEveryAccepted ==
    /\ \A c \in Customers, d \in Days :
          LET all == Entries(ledger, c, d, d)
          IN /\ customer_daily_totals[c][d] = SumAmounts(ledger, all)
             /\ prime_id_daily_totals[c][d] = SumAmounts(ledger, all)
             /\ customer_daily_counts[c][d] = Cardinality(all)
             /\ prime_id_daily_counts[c][d] = Cardinality(all)
    /\ (Evaluated /\ result.accepted) =>
          LET log == customer_weekly_transactions[result.customer_id]
          IN log # <<>> /\ log[Len(log)] = <<result.time, result.effective_amount>>
    /\ (Evaluated /\ ~Prime(result.id)) =>
          /\ result.rules_evaluated["daily_limit"].details.current_daily_total
               = SumAmounts(PriorLedger, PriorSameDay)
          /\ result.rules_evaluated["daily_count"].details.current_daily_count
               = Cardinality(PriorSameDay)

(* a transaction of a non-prime id refused by the daily limit when the only
   transaction accepted before on its date had a prime id *)
C23_Witness ==
    /\ Evaluated
    /\ ~Prime(result.id)
    /\ result.rules_evaluated["daily_limit"].reason = "DAILY_LIMIT_EXCEEDED"
    /\ result.effective_amount <= daily_limit
    /\ PriorSameDay # {}
    /\ \A i \in PriorSameDay : Prime(PriorLedger[i].id)

(* C24: PrimeIdRule.evaluate looks at the count first and at the amount second.
   With n the count and T the total the rule holds for the customer and date of
   a prime-id transaction (by C23 those of all accepted transactions of that
   customer and date), the prime_id result is PRIME_ID_DAILY_COUNT_EXCEEDED when
   n >= prime_id_daily_count, whatever the amount; otherwise
   PRIME_ID_DAILY_LIMIT_EXCEEDED when T + amount > prime_id_daily_limit;
   otherwise it passes *)
C24_CountBeforeAmount ==
    (Evaluated /\ Prime(result.id))
    => LET r == result.rules_evaluated["prime_id"]
           n == Cardinality(PriorSameDay)
           T == PriorDayTotal
       IN IF n >= prime_id_daily_count
          THEN ~r.passed /\ r.reason = "PRIME_ID_DAILY_COUNT_EXCEEDED"
          ELSE IF T + result.effective_amount > prime_id_daily_limit
          THEN ~r.passed /\ r.reason = "PRIME_ID_DAILY_LIMIT_EXCEEDED"
          ELSE r.passed /\ r.reason = "PRIME_ID_APPROVED"

(* C24 witness: a prime-id transaction for which both conditions hold (one
   transaction already recorded that day, and total plus amount above the
   prime-id limit) carries the count reason *)
C24_Witness ==
    /\ Evaluated /\ Prime(result.id)
    /\ Cardinality(PriorSameDay) >= prime_id_daily_count
    /\ PriorDayTotal + result.effective_amount > prime_id_daily_limit
    /\ result.rules_evaluated["prime_id"].reason = "PRIME_ID_DAILY_COUNT_EXCEEDED"

(* C25: AnomalyRule.evaluate fails exactly when one of four conditions holds,
   and its reason is that of the first one in this order: the customer id is
   shorter than min_customer_id_length, the transaction id is shorter than
   min_transaction_id_length, the customer's recorded count is strictly greater
   than 10, the transaction id was recorded before. A customer with exactly 10
   recorded transactions is not flagged *)
C25_AnomalyOrder ==
    [][\A c \in AnomalyCustomers, i \in AnomalyIds :
         AnomalyRule_evaluate(c, i)
         => LET r == ret'.result
                short_customer == Len(c) < min_customer_id_length
                short_id == StrLen(i) < min_transaction_id_length
                many == customer_transaction_counts[c] > 10
                seen == transaction_id_counts[i] > 0
            IN /\ r.passed <=> ~(short_customer \/ short_id \/ many \/ seen)
               /\ short_customer => r.reason = "CUSTOMER_ID_TOO_SHORT"
               /\ (~short_customer /\ short_id)
                    => r.reason = "TRANSACTION_ID_TOO_SHORT"
               /\ (~short_customer /\ ~short_id /\ many)
                    => r.reason = "CUSTOMER_ANOMALY_DETECTED"
               /\ (~short_customer /\ ~short_id /\ ~many /\ seen)
                    => r.reason = "DUPLICATE_TRANSACTION_ID"
               /\ (customer_transaction_counts[c] = 10 /\ ~short_customer
                     /\ ~short_id /\ ~seen) => r.passed]_vars

(* C25 witness: evaluate has passed a customer with exactly 10 recorded
   transactions *)
C25_Witness ==
    /\ ret.stage = "evaluated"
    /\ ret.result.passed
    /\ ret.result.details.customer_transaction_count = 10
    /\ Len(ret.customer_id) >= min_customer_id_length

(* a customer with 11 recorded transactions is flagged *)
C25_WitnessFlagged ==
    /\ ret.stage = "evaluated"
    /\ ret.result.reason = "CUSTOMER_ANOMALY_DETECTED"
    /\ ret.result.details.customer_transaction_count = 11

(* C26: the rules_evaluated of every transaction that parses has exactly the
   five keys daily_limit, daily_count, weekly_limit, prime_id and anomaly, on
   both paths, and each rule evaluated on the path reports its own verdict
   whatever the rules before it returned: the daily limit, the daily count,
   the weekly limit and the anomaly check of a non-prime transaction, the
   weekly limit, the prime-id rule and the anomaly check of a prime one (the
   rules of the other path carry the fixed passing results NOT_PRIME_ID and
   PRIME_ID) *)
C26_AllRulesReported ==
    Evaluated
    => LET rs == result.rules_evaluated
           amount == result.effective_amount
           seen == \E i \in 1..Len(PriorLedger) : PriorLedger[i].id = result.id
       IN /\ DOMAIN rs = {"daily_limit", "daily_count", "weekly_limit",
                          "prime_id", "anomaly"}
          /\ rs["weekly_limit"].reason =
                IF rs["weekly_limit"].details.rolling_7d_total + amount > weekly_limit
                THEN "WEEKLY_LIMIT_EXCEEDED" ELSE "None"
          /\ rs["anomaly"].reason =
                IF StrLen(result.id) < min_transaction_id_length
                THEN "TRANSACTION_ID_TOO_SHORT"
                ELSE IF seen THEN "DUPLICATE_TRANSACTION_ID"
                ELSE "NO_ANOMALY_DETECTED"
          /\ ~Prime(result.id)
               => /\ rs["daily_limit"].reason =
                       IF PriorDayTotal + amount > daily_limit
                       THEN "DAILY_LIMIT_EXCEEDED" ELSE "None"
                  /\ rs["daily_count"].reason =
                       IF Cardinality(PriorSameDay) >= daily_load_count
                       THEN "DAILY_COUNT_EXCEEDED" ELSE "None"
                  /\ rs["prime_id"].reason = "NOT_PRIME_ID"
          /\ Prime(result.id)
               => /\ rs["daily_limit"].reason = "PRIME_ID"
                  /\ rs["daily_count"].reason = "PRIME_ID"
                  /\ rs["prime_id"].reason \in
                       {"PRIME_ID_DAILY_COUNT_EXCEEDED",
                        "PRIME_ID_DAILY_LIMIT_EXCEEDED", "PRIME_ID_APPROVED"}
          /\ \A r \in DOMAIN rs :
               rs[r].passed <=> rs[r].reason \in {"None", "NOT_PRIME_ID", "PRIME_ID",
                                                  "PRIME_ID_APPROVED",
                                                  "NO_ANOMALY_DETECTED"}

(* C26 witness: a non-prime transaction that is over the daily limit and over
   the weekly limit and repeats a recorded id reports the three reasons *)
C26_Witness ==
    /\ Evaluated /\ ~Prime(result.id)
    /\ result.rules_evaluated["daily_limit"].reason = "DAILY_LIMIT_EXCEEDED"
    /\ result.rules_evaluated["weekly_limit"].reason = "WEEKLY_LIMIT_EXCEEDED"
    /\ result.rules_evaluated["anomaly"].reason = "DUPLICATE_TRANSACTION_ID"

(* the accepted transactions of a customer as (date, amount) pairs, in the
   order of their acceptance *)
AcceptedLog(c) ==
    LET own == SelectSeq(ledger, LAMBDA e : e.customer_id = c)
    IN [i \in 1..Len(own) |-> <<own[i].date, own[i].amount>>]

(* C27: a customer's weekly log changes only by an append at the back and by
   removals from the front: in every reachable state, whatever the order of
   the feed, the log is a suffix of the sequence of the customer's accepted
   (date, amount) pairs in their order of acceptance - nothing is reordered,
   nothing is missing from the middle or the back *)
C27_LogIsSuffixOfAccepted ==
    \A c \in Customers :
        IsSuffix(customer_weekly_transactions[c], AcceptedLog(c))

(* C27 witness: a log that has lost its front and whose surviving entries are
   not in the order of their dates *)
C27_Witness ==
    \E c \in Customers :
        LET log == customer_weekly_transactions[c]
        IN /\ Len(log) < Len(AcceptedLog(c))
           /\ \E i, j \in 1..Len(log) : i < j /\ log[i][1] > log[j][1]

(* the log of the evaluated transaction's customer as evaluate left it, before
   the append of an accepted transaction *)
LogAfterEvaluate ==
    LET log == customer_weekly_transactions[result.customer_id]
    IN IF result.accepted THEN SubSeq(log, 1, Len(log) - 1) ELSE log

(* C28: weekly-limit decisions depend on the order of the feed. After every
   evaluation for a date D, accepted or rejected, no entry dated outside
   [D-6, D] - before the window or after D - is left at the front of the log,
   the entries removed are gone for good (the log stays a suffix of the accepted
   transactions), and the rolling total is the sum of the surviving in-window
   entries, which is at most, and with an unordered feed can be less than, the
   sum of the customer's accepted amounts dated in the window *)
C28_FeedOrderMatters ==
    Evaluated
    => LET D == result.time
           kept == LogAfterEvaluate
           total == result.rules_evaluated["weekly_limit"].details.rolling_7d_total
       IN /\ kept # <<>> => (D - 6 <= kept[1][1] /\ kept[1][1] <= D)
          /\ IsSuffix(kept, [i \in 1..Len(PriorLedger) |->
                               <<PriorLedger[i].date, PriorLedger[i].amount>>])
          /\ total = SumInWindow(kept, (D - 6)..D)
          /\ total <= PriorWindowTotal

(* C28 witness: a transaction fed after a later-dated one is accepted on a
   rolling total smaller than the accepted in-window amounts, which together
   with its own amount are over the weekly limit: fed in timestamp order it is
   refused (C29) *)
C28_Witness ==
    /\ Evaluated /\ result.accepted
    /\ result.rules_evaluated["weekly_limit"].details.rolling_7d_total
         < PriorWindowTotal
    /\ PriorWindowTotal + result.effective_amount > weekly_limit

(* a refused transaction dated before the only entry of the log has emptied
   the log *)
C28_WitnessRejectedPrunes ==
    /\ Evaluated /\ ~result.accepted
    /\ ledger # <<>> /\ ledger[Len(ledger)].date > result.time
    /\ customer_weekly_transactions[result.customer_id] = <<>>

(* the dates a seven-day window over the fed dates can end at *)
WindowEnds == {d + k : d \in Days, k \in 0..(WeekDays - 1)}

(* C29: with serialized calls fed in non-decreasing order of their timestamps
   and non-negative amounts, in every reachable state, for every customer and
   every date E, the effective amounts of the accepted transactions dated in
   [E-6, E] sum to at most weekly_limit *)
C29_WeeklySumWithinLimit ==
    sorted_feed
    => \A c \in Customers, E \in WindowEnds :
          SumAmounts(ledger, Entries(ledger, c, E - 6, E)) <= weekly_limit

(* C29 witness: a transaction within the daily and prime-id rules is refused by
   the weekly limit alone, the amounts accepted in its window being within the
   limit and over it with its own *)
C29_Witness ==
    /\ sorted_feed /\ Evaluated /\ ~result.accepted
    /\ result.rules_evaluated["weekly_limit"].reason = "WEEKLY_LIMIT_EXCEEDED"
    /\ \A r \in BusinessRules \ {"weekly_limit"} : result.rules_evaluated[r].passed
    /\ PriorWindowTotal <= weekly_limit
    /\ PriorWindowTotal + result.effective_amount > weekly_limit

AcceptedPrimeSum(c, d) == SumAmounts(ledger, PrimeEntries(ledger, c, d, d))

(* C30: with serialized calls, in every reachable state, for every customer and
   date, the accepted amounts under non-prime ids sum to at most daily_limit
   and the accepted amounts under prime ids sum to at most
   prime_id_daily_limit *)
C30_DailySumsWithinLimits ==
    \A c \in Customers, d \in Days :
        /\ AcceptedNonPrimeSum(c, d) <= daily_limit
        /\ AcceptedPrimeSum(c, d) <= prime_id_daily_limit

(* C30 witness: a day's non-prime loads have reached daily_limit, and a prime-id
   load over prime_id_daily_limit is refused for its amount *)
C30_Witness ==
    /\ Evaluated /\ Prime(result.id) /\ ~result.accepted
    /\ result.rules_evaluated["prime_id"].reason = "PRIME_ID_DAILY_LIMIT_EXCEEDED"
    /\ result.effective_amount > prime_id_daily_limit
    /\ \E d \in Days : AcceptedNonPrimeSum(result.customer_id, d) = daily_limit

(* the larger of two numbers *)
Max(a, b) == IF a >= b THEN a ELSE b

(* C31: with serialized calls, in every reachable state, for every customer and
   date, the accepted transactions, prime-id and non-prime-id together, number
   at most max(daily_load_count, prime_id_daily_count) - at most 3 with the
   default configuration *)
C31_DailyAcceptedCount ==
    \A c \in Customers, d \in Days :
        /\ Cardinality(Entries(ledger, c, d, d))
              <= Max(daily_load_count, prime_id_daily_count)
        /\ Cardinality(Entries(ledger, c, d, d)) <= 3

(* C31 witness: with three loads accepted on its date a fourth, within every
   amount limit, is refused by the daily count alone *)
C31_Witness ==
    /\ Evaluated /\ ~result.accepted
    /\ Cardinality(Entries(ledger, result.customer_id, result.time, result.time)) = 3
    /\ result.rules_evaluated["daily_count"].reason = "DAILY_COUNT_EXCEEDED"
    /\ \A r \in BusinessRules \ {"daily_count"} : result.rules_evaluated[r].passed

(* the state the business rules hold for one customer *)
CustomerSlice(c) ==
    <<customer_daily_totals[c], customer_daily_counts[c],
      customer_weekly_transactions[c], prime_id_daily_totals[c],
      prime_id_daily_counts[c]>>
CustomerSliceNext(c) ==
    <<customer_daily_totals'[c], customer_daily_counts'[c],
      customer_weekly_transactions'[c], prime_id_daily_totals'[c],
      prime_id_daily_counts'[c]>>

(* C32: business decisions are independent across customers. Every call of
   process_transaction for a customer A leaves the daily totals and counts, the
   weekly log and the prime-id totals and counts of every other customer
   unchanged, and its business-rule results and accepted flag are those
   computed from A's own accepted transactions and A's own log, whatever the
   other customers' transactions interleaved with them *)
C32_CustomersIndependent ==
    [][\A tx \in CustomerTransactions :
         process_transaction(tx)
         => /\ \A b \in TwoCustomers \ {tx.customer_id} :
                  CustomerSliceNext(b) = CustomerSlice(b)
            /\ ParsesAmount(tx.load_amount)
                 => LET A == tx.customer_id
                        own == Entries(ledger, A, tx.time, tx.time)
                        window == (tx.time - 6)..tx.time
                        amount == result'.effective_amount
                        rs == result'.rules_evaluated
                    IN /\ rs["daily_limit"].passed <=>
                           (Prime(tx.id) \/ SumAmounts(ledger, own) + amount <= daily_limit)
                       /\ rs["daily_count"].passed <=>
                           (Prime(tx.id) \/ Cardinality(own) < daily_load_count)
                       /\ rs["prime_id"].passed <=>
                           (~Prime(tx.id)
                            \/ (/\ Cardinality(own) < prime_id_daily_count
                                /\ SumAmounts(ledger, own) + amount
                                     <= prime_id_daily_limit))
                       /\ rs["weekly_limit"].passed <=>
                           SumInWindow(PruneFront(customer_weekly_transactions[A],
                                                  window), window) + amount
                             <= weekly_limit
                       /\ IsSuffix(customer_weekly_transactions[A], AcceptedLog(A))
                       /\ result'.accepted <=>
                           \A r \in BusinessRules : rs[r].passed]_vars

(* C32 witness: a load is accepted on a date on which the other customer's
   accepted loads together with it would be over the daily limit *)
C32_Witness ==
    /\ Evaluated /\ result.accepted /\ ~Prime(result.id)
    /\ \E b \in TwoCustomers \ {result.customer_id} :
          LET others == Entries(ledger, b, result.time, result.time)
          IN /\ others # {}
             /\ SumAmounts(ledger, others) + result.effective_amount > daily_limit

(* C33: the daily rules are keyed by calendar date. Every call of
   process_transaction for a date d leaves the daily and prime-id totals and
   counts of every other date unchanged, and its daily_limit, daily_count and
   prime_id results are those computed from the customer's accepted
   transactions dated d alone: with none accepted yet on d the rules start from
   a total and a count of zero, whatever was accepted on other dates *)
C33_KeyedByDate ==
    [][\A tx \in FeedTransactions :
         process_transaction(tx)
         => /\ \A c \in Customers, d \in Days :
                  d # tx.time
                  => /\ customer_daily_totals'[c][d] = customer_daily_totals[c][d]
                     /\ customer_daily_counts'[c][d] = customer_daily_counts[c][d]
                     /\ prime_id_daily_totals'[c][d] = prime_id_daily_totals[c][d]
                     /\ prime_id_daily_counts'[c][d] = prime_id_daily_counts[c][d]
            /\ ParsesAmount(tx.load_amount)
                 => LET same == Entries(ledger, tx.customer_id, tx.time, tx.time)
                        total == SumAmounts(ledger, same)
                        count == Cardinality(same)
                        amount == result'.effective_amount
                        rs == result'.rules_evaluated
                    IN IF Prime(tx.id)
                       THEN /\ rs["prime_id"].passed <=>
                                 (/\ count < prime_id_daily_count
                                  /\ total + amount <= prime_id_daily_limit)
                            /\ rs["prime_id"].passed =>
                                 /\ rs["prime_id"].details.prime_id_daily_count = count
                                 /\ rs["prime_id"].details.prime_id_daily_total = total
                       ELSE /\ rs["daily_limit"].passed <=> total + amount <= daily_limit
                            /\ rs["daily_limit"].details.current_daily_total = total
                            /\ rs["daily_count"].passed <=> count < daily_load_count
                            /\ rs["daily_count"].details.current_daily_count = count]_vars

(* C33 witness: the day after a date on which the customer's loads reached the
   daily limit, a load is evaluated on a total and a count of zero and accepted *)
C33_Witness ==
    /\ Evaluated /\ result.accepted /\ ~Prime(result.id)
    /\ result.time - 1 \in Days
    /\ AcceptedNonPrimeSum(result.customer_id, result.time - 1) = daily_limit
    /\ result.rules_evaluated["daily_limit"].details.current_daily_total = 0
    /\ result.rules_evaluated["daily_count"].details.current_daily_count = 0

(* C34: duplicate-id detection is global. A transaction whose id and customer
   id are long enough and whose customer has at most 10 recorded transactions
   gets the anomaly reason DUPLICATE_TRANSACTION_ID exactly when its id was
   recorded before for any customer, its own or another, and its accepted flag
   is that of the four business rules whatever the anomaly result *)
C34_DuplicateIdIsGlobal ==
    (/\ Evaluated
     /\ Len(result.customer_id) >= min_customer_id_length
     /\ StrLen(result.id) >= min_transaction_id_length
     /\ Cardinality({i \in 1..Len(PriorLedger) :
                       PriorLedger[i].customer_id = result.customer_id}) <= 10)
    => /\ result.rules_evaluated["anomaly"].reason = "DUPLICATE_TRANSACTION_ID"
          <=> \E i \in 1..Len(PriorLedger) : PriorLedger[i].id = result.id
       /\ result.rules_evaluated["anomaly"].reason = "NO_ANOMALY_DETECTED"
          <=> \A i \in 1..Len(PriorLedger) : PriorLedger[i].id # result.id
       /\ result.accepted <=>
            \A r \in BusinessRules : result.rules_evaluated[r].passed

(* C34 witness: an id recorded for one customer only makes the first load of
   the other customer a duplicate, and the load is accepted *)
C34_Witness ==
    /\ Evaluated /\ result.accepted
    /\ result.rules_evaluated["anomaly"].reason = "DUPLICATE_TRANSACTION_ID"
    /\ \A i \in 1..Len(PriorLedger) :
          PriorLedger[i].customer_id # result.customer_id
    /\ \E i \in 1..Len(PriorLedger) : PriorLedger[i].id = result.id

(* the amount a string of digits, a point and two digits denotes *)
TwoDecimalValue(s) ==
    Dec(DigitsValue(SubSeq(s, 1, Len(s) - 3)), DigitsValue(SubSeq(s, Len(s) - 1, Len(s))))
IsTwoDecimal(s) ==
    /\ Len(s) >= 4
    /\ s[Len(s) - 2] = "."
    /\ \A i \in (1..Len(s)) \ {Len(s) - 2} : IsDigit(s[i])

(* C35: the effective_amount string of a successfully processed transaction is
   the effective amount written with two decimals, with "$" in front exactly
   when the original load_amount string starts with "$" ("USD$100.00" gives
   "100.00"); on the error path effective_amount is the original load_amount
   string and is_monday is false, on a Monday too *)
C35_EffectiveAmountString ==
    ret.stage = "result"
    => IF ret.error = "None"
       THEN LET str == ret.effective_amount
                dollar == arg.load_amount # <<>> /\ arg.load_amount[1] = "$"
                digits == IF dollar THEN Tail(str) ELSE str
            IN /\ dollar <=> (str # <<>> /\ str[1] = "$")
               /\ IsTwoDecimal(digits)
               /\ TwoDecimalValue(digits) = ret.effective
               /\ ret.is_monday <=> arg.time % 7 = 1
       ELSE /\ ret.effective_amount = arg.load_amount
            /\ ~ret.is_monday

(* C35 witness: a load_amount "USD$..." was processed and its effective_amount
   has no "$" *)
C35_Witness ==
    /\ ret.stage = "result" /\ ret.error = "None"
    /\ SubSeq(arg.load_amount, 1, 4) = <<"U", "S", "D", "$">>
    /\ ret.effective_amount[1] # "$"
    /\ ret.is_monday

(* a load_amount no amount is read from, on a Monday: the string is returned
   as it came and is_monday is false *)
C35_WitnessError ==
    /\ ret.stage = "result" /\ ret.error # "None"
    /\ arg.time % 7 = 1
    /\ ret.effective_amount = arg.load_amount /\ ~ret.is_monday

====
